---- MODULE Spec2Model ----
(***************************************************************************)
(* Ingestion / sync core of Sports_Game_Tracker.                           *)
(*                                                                         *)
(*   apps/data_ingestion/clients/espn_client.py   ESPNClient               *)
(*   apps/data_ingestion/services/sync_service.py SyncService              *)
(*   apps/data_ingestion/tasks.py                 Celery tasks             *)
(*   apps/core/models.py                          League/Team/Game/Score   *)
(*                                                                         *)
(* The store is the four tables the sync service writes.  League rows are  *)
(* keyed by their unique abbreviation.  A Team row is identified by        *)
(* (league, abbreviation), which is unique and which no operation changes; *)
(* a team foreign key is that pair.  Game rows are kept in creation order, *)
(* a row's position being its primary key.  Python exceptions are values:  *)
(* every operator that models a method returns a record with an exc field. *)
(***************************************************************************)
EXTENDS Integers, Sequences, FiniteSets, TLC

VARIABLES leagues, teams, games, scores, ret, runs, cache, now, io, upstream, celery

storeVars == <<leagues, teams, games, scores>>
clientVars == <<cache, now, io, upstream>>
vars == <<leagues, teams, games, scores, ret, runs, cache, now, io, upstream, celery>>

(***************************************************************************)
(* Bounds of the model.                                                    *)
(***************************************************************************)
MaxBatch == 1
MaxDay == 1
MaxRuns == 1
MaxEvents == 2
MaxBeats == 2
MaxClock == 2

(***************************************************************************)
(* Python values.                                                          *)
(***************************************************************************)
NoExc == "none"

\* f[k] = v on a dict
DictSet(f, k, v) == [x \in DOMAIN f \cup {k} |-> IF x = k THEN v ELSE f[x]]
EmptyDict == [x \in {} |-> x]

\* the element of a one-element set.  Only({Rest(x) : x \in {value}}) is
\* "x = value" followed by the rest of the block: value is evaluated once.
Only(S) == CHOOSE x \in S : TRUE

SetOf(seq) == {seq[i] : i \in DOMAIN seq}

(***************************************************************************)
(* Python strings that the code inspects character by character are        *)
(* sequences of one-character strings; Str gives the string itself.        *)
(***************************************************************************)
UPPER ==
    [a |-> "A", b |-> "B", c |-> "C", d |-> "D", e |-> "E", f |-> "F", g |-> "G",
     h |-> "H", i |-> "I", j |-> "J", k |-> "K", l |-> "L", m |-> "M", n |-> "N",
     o |-> "O", p |-> "P", q |-> "Q", r |-> "R", s |-> "S", t |-> "T", u |-> "U",
     v |-> "V", w |-> "W", x |-> "X", y |-> "Y", z |-> "Z"]

\* str.upper
\* variant: leaves every character as it is
UpperIdentity(s) == s

Upper(s) == [i \in DOMAIN s |-> IF s[i] \in DOMAIN UPPER THEN UPPER[s[i]] ELSE s[i]]

\* str.lower
Lower(s) ==
    [i \in DOMAIN s |->
        IF \E c \in DOMAIN UPPER : UPPER[c] = s[i]
        THEN CHOOSE c \in DOMAIN UPPER : UPPER[c] = s[i]
        ELSE s[i]]

RECURSIVE Str(_)
Str(s) == IF s = <<>> THEN "" ELSE s[1] \o Str(Tail(s))

\* Optional[...] arguments: <<>> is None, <<v>> is the value v
None == <<>>
Some(v) == <<v>>

\* dict.get(key, default)
Get(dict, key, default) == IF key \in DOMAIN dict THEN dict[key] ELSE default

\* bool(dict)
Truthy(dict) == DOMAIN dict # {}

(***************************************************************************)
(* ESPNClient: class attributes.                                           *)
(***************************************************************************)
SPORT_MAPPINGS ==
    [NFL |-> [sport |-> "football", league |-> "nfl"],
     NBA |-> [sport |-> "basketball", league |-> "nba"],
     MLB |-> [sport |-> "baseball", league |-> "mlb"],
     NHL |-> [sport |-> "hockey", league |-> "nhl"],
     NCAAF |-> [sport |-> "football", league |-> "college-football"],
     NCAAB |-> [sport |-> "basketball", league |-> "mens-college-basketball"]]

\* status_map of _parse_scoreboard_event
status_map ==
    [STATUS_SCHEDULED |-> "scheduled",
     STATUS_IN_PROGRESS |-> "in_progress",
     STATUS_FINAL |-> "final",
     STATUS_POSTPONED |-> "postponed",
     STATUS_CANCELED |-> "cancelled",
     STATUS_SUSPENDED |-> "suspended"]

STATUS_MAPPINGS ==
    [STATUS_SCHEDULED |-> "scheduled",
     STATUS_IN_PROGRESS |-> "live",
     STATUS_HALFTIME |-> "live",
     STATUS_FINAL |-> "final",
     STATUS_FULL_TIME |-> "final",
     STATUS_POSTPONED |-> "postponed",
     STATUS_CANCELED |-> "cancelled",
     STATUS_CANCELLED |-> "cancelled"]

CACHE_DURATIONS ==
    [live |-> 60, scheduled |-> 3600, final |-> 86400, teams |-> 604800]

\* ESPNClient.__init__: max_retries
max_retries == 3

\* _create_session: Retry(status_forcelist=...)
status_forcelist == {429, 500, 502, 503, 504}

(***************************************************************************)
(* The upstream: what the ESPN API answers to each attempt of a request.   *)
(* An answer is a transport failure or an HTTP response; a response body   *)
(* is JSON (data) or not.  The last answer of the sequence repeats.        *)
(***************************************************************************)
Response(status_code, data) ==
    [transport_error |-> FALSE, status_code |-> status_code, is_json |-> TRUE, data |-> data]
NotJson(status_code) ==
    [transport_error |-> FALSE, status_code |-> status_code, is_json |-> FALSE, data |-> EmptyDict]
TransportError ==
    [transport_error |-> TRUE, status_code |-> 0, is_json |-> FALSE, data |-> EmptyDict]

\* variant: every error status is retried
RECURSIVE SessionGetRetryAnyError(_, _, _)
SessionGetRetryAnyError(answers, attempt, retries_left) ==
    LET a == answers[IF attempt <= Len(answers) THEN attempt ELSE Len(answers)]
        transient == a.transport_error \/ a.status_code >= 400
    IN  IF transient /\ retries_left > 0
        THEN SessionGetRetryAnyError(answers, attempt + 1, retries_left - 1)
        ELSE IF a.transport_error
        THEN [exc |-> "ConnectionError", response |-> a, attempts |-> attempt]
        ELSE IF a.status_code \in status_forcelist
        THEN [exc |-> "RetryError", response |-> a, attempts |-> attempt]
        ELSE [exc |-> NoExc, response |-> a, attempts |-> attempt]

\* self.session.get under the Retry adapter of _create_session: a transport
\* failure or a status of status_forcelist is retried while retries are
\* left; when they are exhausted the adapter raises
RECURSIVE SessionGet(_, _, _)
SessionGet(answers, attempt, retries_left) ==
    LET a == answers[IF attempt <= Len(answers) THEN attempt ELSE Len(answers)]
        transient == a.transport_error \/ a.status_code \in status_forcelist
    IN  IF transient /\ retries_left > 0
        THEN SessionGet(answers, attempt + 1, retries_left - 1)
        ELSE IF a.transport_error
        THEN [exc |-> "ConnectionError", response |-> a, attempts |-> attempt]
        ELSE IF a.status_code \in status_forcelist
        THEN [exc |-> "RetryError", response |-> a, attempts |-> attempt]
        ELSE [exc |-> NoExc, response |-> a, attempts |-> attempt]

(***************************************************************************)
(* django.core.cache: key -> [value, expires].  An entry is served while   *)
(* the clock is before its expiry.                                         *)
(***************************************************************************)
CacheGet(c, t, key) ==
    IF key \in DOMAIN c /\ t < c[key].expires THEN Some(c[key].value) ELSE None

CacheSet(c, t, key, value, timeout) ==
    DictSet(c, key, [value |-> value, expires |-> t + timeout])

\* the I/O one call has made: session.get calls, attempts on the network,
\* cache reads and cache writes
NoIO == [requests |-> 0, attempts |-> 0, cache_gets |-> 0, cache_sets |-> 0]

(***************************************************************************)
(* ESPNClient._get_cache_key.  params maps each keyword to its formatted   *)
(* value; param_keys is the sorted order of the keywords the client uses.  *)
(***************************************************************************)
RECURSIVE Join(_, _)
Join(items, sep) ==
    IF items = <<>> THEN ""
    ELSE IF Len(items) = 1 THEN items[1]
    ELSE items[1] \o sep \o Join(Tail(items), sep)

GetCacheKey(endpoint, params) ==
    LET param_keys == <<"dates", "limit", "season">>
        Present(key) == key \in DOMAIN params
        sorted == SelectSeq(param_keys, Present)
    IN  "espn_api:" \o endpoint \o ":"
            \o Join([i \in DOMAIN sorted |-> sorted[i] \o "=" \o params[sorted[i]]], "_")

(***************************************************************************)
(* ESPNClient._make_request.                                               *)
(***************************************************************************)
MakeRequest(c, t, endpoint, use_cache, cache_duration, params, answers) ==
    LET cache_key == GetCacheKey(endpoint, params)
        cached_response == IF use_cache THEN CacheGet(c, t, cache_key) ELSE None
        gets == IF use_cache THEN 1 ELSE 0
    IN  IF cached_response # None /\ Truthy(cached_response[1])
        THEN [cache |-> c, exc |-> NoExc, value |-> cached_response[1],
              io |-> [NoIO EXCEPT !.cache_gets = gets]]
        ELSE LET AfterGet(got) ==
                     LET io_got == [requests |-> 1, attempts |-> got.attempts,
                                    cache_gets |-> gets, cache_sets |-> 0]
                         Raise(exc) == [cache |-> c, exc |-> exc, value |-> EmptyDict,
                                        io |-> io_got]
                     IN  IF got.exc # NoExc
                         THEN Raise("ESPNAPIError: Request failed")
                         ELSE IF got.response.status_code >= 400
                         THEN IF got.response.status_code = 429
                              THEN Raise("ESPNRateLimitError: Rate limit exceeded")
                              ELSE Raise("ESPNAPIError: HTTP error")
                         ELSE IF ~got.response.is_json
                         THEN Raise("ESPNAPIError: Invalid JSON response")
                         ELSE IF use_cache
                         THEN LET duration == IF cache_duration = None \/ cache_duration[1] = 0
                                              THEN CACHE_DURATIONS.scheduled
                                              ELSE cache_duration[1]
                              IN  [cache |-> CacheSet(c, t, cache_key, got.response.data, duration),
                                   exc |-> NoExc, value |-> got.response.data,
                                   io |-> [io_got EXCEPT !.cache_sets = 1]]
                         ELSE [cache |-> c, exc |-> NoExc, value |-> got.response.data,
                               io |-> io_got]
             IN  Only({AfterGet(x) : x \in {SessionGet(answers, 1, max_retries)}})

(***************************************************************************)
(* JSON values of an event that the parsers convert: a string is its       *)
(* characters; a date string is its ISO fields (iso, tz) or a text that    *)
(* has none (text).                                                        *)
(***************************************************************************)
JStr(s) == [t |-> "str", s |-> s]
JInt(n) == [t |-> "int", n |-> n]
JNull == [t |-> "null"]
PyNone == "None"

Digits == <<"0", "1", "2", "3", "4", "5", "6", "7", "8", "9">>

RECURSIVE DigitsValue(_, _)
DigitsValue(s, acc) ==
    IF s = <<>> THEN acc
    ELSE DigitsValue(Tail(s), 10 * acc + (CHOOSE i \in DOMAIN Digits : Digits[i] = s[1]) - 1)

\* int(v)
PyInt(v) ==
    IF v.t = "null" THEN [exc |-> "TypeError", value |-> 0]
    ELSE IF v.t = "int" THEN [exc |-> NoExc, value |-> v.n]
    ELSE LET signed == v.s # <<>> /\ v.s[1] \in {"-", "+"}
             body == IF signed THEN Tail(v.s) ELSE v.s
         IN  IF body = <<>> \/ \E i \in DOMAIN body : body[i] \notin SetOf(Digits)
             THEN [exc |-> "ValueError", value |-> 0]
             ELSE [exc |-> NoExc,
                   value |-> IF signed /\ v.s[1] = "-"
                             THEN 0 - DigitsValue(body, 0) ELSE DigitsValue(body, 0)]

\* str.replace('Z', '+00:00')
ReplaceZ(v) == IF "iso" \in DOMAIN v /\ v.tz = "Z" THEN [v EXCEPT !.tz = "+00:00"] ELSE v

DaysIn(y, m) ==
    LET month_days == <<31, 28, 31, 30, 31, 30, 31, 31, 30, 31, 30, 31>>
    IN  IF m = 2 /\ y % 4 = 0 /\ (y % 100 # 0 \/ y % 400 = 0) THEN 29 ELSE month_days[m]

\* datetime.fromisoformat
FromIsoFormat(v) ==
    IF "iso" \notin DOMAIN v
    THEN [exc |-> "ValueError", value |-> <<>>]
    ELSE LET y == v.iso[1]
             m == v.iso[2]
             d == v.iso[3]
         IN  IF /\ y \in 1..9999
                /\ m \in 1..12
                /\ d \in 1..DaysIn(y, m)
                /\ v.iso[4] \in 0..23
                /\ v.iso[5] \in 0..59
                /\ v.tz \in {"", "+00:00", "-05:00"}
             THEN [exc |-> NoExc, value |-> <<v.iso, v.tz>>]
             ELSE [exc |-> "ValueError", value |-> <<>>]

(***************************************************************************)
(* ESPNClient.normalize_status.                                            *)
(***************************************************************************)
\* variant: looks the status up in the table of _parse_scoreboard_event
NormalizeStatusInline(espn_status) == Get(status_map, espn_status, "scheduled")

NormalizeStatus(espn_status) == Get(STATUS_MAPPINGS, espn_status, "scheduled")

(***************************************************************************)
(* ESPNClient._parse_scoreboard_event, and the list comprehension of       *)
(* get_scoreboard over the events.  The record it returns has no           *)
(* period_scores key.                                                      *)
(***************************************************************************)
\* next((c for c in competitors if c.get('homeAway') == side), {})
NextCompetitorOrEmpty(competitors, side) ==
    LET found == {i \in DOMAIN competitors : Get(competitors[i], "homeAway", PyNone) = side}
    IN  IF found = {} THEN EmptyDict
        ELSE competitors[CHOOSE i \in found : \A j \in found : i <= j]

TeamBlock(competitor) ==
    [id |-> Get(competitor, "id", PyNone),
     abbreviation |-> Get(Get(competitor, "team", EmptyDict), "abbreviation", PyNone)]

ParseScoreboardEvent(event) ==
    LET competitions == Get(event, "competitions", <<EmptyDict>>)
        Raise(exc) == [exc |-> exc, value |-> EmptyDict]
    IN  IF competitions = <<>> THEN Raise("IndexError") ELSE
    LET competition == competitions[1]
        competitors == Get(competition, "competitors", <<>>)
        home_competitor == NextCompetitorOrEmpty(competitors, "home")
        away_competitor == NextCompetitorOrEmpty(competitors, "away")
        status_data == Get(competition, "status", EmptyDict)
        status_type == Get(Get(status_data, "type", EmptyDict), "name", "scheduled")
        status == Get(status_map, status_type, "scheduled")
        \* situation = None; if competition.get('situation'): situation = {...}
        sit == Get(competition, "situation", EmptyDict)
        Player(key) ==
            LET player == Get(sit, key, EmptyDict)
            IN  IF Truthy(player)
                THEN Some([name |-> Get(Get(player, "athlete", EmptyDict), "shortName", PyNone),
                           summary |-> Get(player, "summary", PyNone)])
                ELSE None
        situation ==
            IF Truthy(sit)
            THEN Some([balls |-> Get(sit, "balls", PyNone),
                       strikes |-> Get(sit, "strikes", PyNone),
                       outs |-> Get(sit, "outs", PyNone),
                       pitcher |-> Player("pitcher"),
                       batter |-> Player("batter"),
                       on_base |-> [first |-> Get(sit, "onFirst", FALSE),
                                    second |-> Get(sit, "onSecond", FALSE),
                                    third |-> Get(sit, "onThird", FALSE)]])
            ELSE None
        get_stat(competitor, stat_name) ==
            LET statistics == Get(competitor, "statistics", <<>>)
                found == {i \in DOMAIN statistics :
                             Get(statistics[i], "name", PyNone) = stat_name}
            IN  IF status \in {"scheduled", "postponed", "cancelled"} THEN "0"
                ELSE IF found = {} THEN "0"
                ELSE Get(statistics[CHOOSE i \in found : \A j \in found : i <= j],
                         "displayValue", "0")
        Stats(competitor) == [hits |-> get_stat(competitor, "hits"),
                              errors |-> get_stat(competitor, "errors")]
        home_score == PyInt(Get(home_competitor, "score", JInt(0)))
        away_score == PyInt(Get(away_competitor, "score", JInt(0)))
    IN  IF home_score.exc # NoExc THEN Raise(home_score.exc)
        ELSE IF away_score.exc # NoExc THEN Raise(away_score.exc)
        ELSE [exc |-> NoExc,
              value |-> [id |-> Get(event, "id", PyNone),
                         home_team |-> TeamBlock(home_competitor),
                         away_team |-> TeamBlock(away_competitor),
                         home_score |-> home_score.value,
                         away_score |-> away_score.value,
                         status |-> status,
                         scheduled_time |-> Get(competition, "date", JNull),
                         situation |-> situation,
                         box_score |-> [home_stats |-> Stats(home_competitor),
                                        away_stats |-> Stats(away_competitor)],
                         has_period_scores |-> FALSE,
                         period_scores |-> <<>>]]

RECURSIVE ParseEvents(_, _, _)
ParseEvents(events, i, parsed) ==
    IF i > Len(events)
    THEN [exc |-> NoExc, value |-> parsed]
    ELSE LET Rest(g) == IF g.exc # NoExc
                        THEN [exc |-> g.exc, value |-> <<>>]
                        ELSE ParseEvents(events, i + 1, Append(parsed, g.value))
         IN  Only({Rest(x) : x \in {ParseScoreboardEvent(events[i])}})

(***************************************************************************)
(* ESPNClient.get_scoreboard, get_teams, get_team_schedule.  league is a   *)
(* string as characters.                                                   *)
(***************************************************************************)
GetScoreboard(c, t, league, date, limit, answers) ==
    LET league_upper == Str(Upper(league))
    IN  IF league_upper \notin DOMAIN SPORT_MAPPINGS
        THEN [cache |-> c, exc |-> "ESPNAPIError: Unsupported league", value |-> <<>>, io |-> NoIO]
        ELSE LET mapping == SPORT_MAPPINGS[league_upper]
                 endpoint == mapping.sport \o "/" \o mapping.league \o "/scoreboard"
                 limit_only == [key \in {"limit"} |-> ToString(limit)]
                 params == IF date # None /\ date[1] # ""
                           THEN DictSet(limit_only, "dates", date[1])
                           ELSE limit_only
                 AfterRequest(response) ==
                     IF response.exc # NoExc
                     THEN [cache |-> response.cache, exc |-> response.exc,
                           value |-> <<>>, io |-> response.io]
                     ELSE LET AfterParse(parsed) ==
                                  [cache |-> response.cache, exc |-> parsed.exc,
                                   value |-> parsed.value, io |-> response.io]
                          IN  Only({AfterParse(x) : x \in
                                      {ParseEvents(Get(response.value, "events", <<>>), 1, <<>>)}})
             IN  Only({AfterRequest(x) : x \in
                         {MakeRequest(c, t, endpoint, TRUE, None, params, answers)}})

GetTeams(c, t, league, limit, answers) ==
    IF Str(league) \notin DOMAIN SPORT_MAPPINGS
    THEN [cache |-> c, exc |-> "ESPNAPIError: Unsupported league", value |-> EmptyDict, io |-> NoIO]
    ELSE LET mapping == SPORT_MAPPINGS[Str(league)]
             endpoint == mapping.sport \o "/" \o mapping.league \o "/teams"
         IN  MakeRequest(c, t, endpoint, TRUE, Some(CACHE_DURATIONS.teams),
                         [key \in {"limit"} |-> ToString(limit)], answers)

GetTeamSchedule(c, t, league, team_id, season, answers) ==
    IF Str(league) \notin DOMAIN SPORT_MAPPINGS
    THEN [cache |-> c, exc |-> "ESPNAPIError: Unsupported league", value |-> EmptyDict, io |-> NoIO]
    ELSE LET mapping == SPORT_MAPPINGS[Str(league)]
             endpoint == mapping.sport \o "/" \o mapping.league
                             \o "/teams/" \o team_id \o "/schedule"
             params == IF season # None /\ season[1] # 0
                       THEN [key \in {"season"} |-> ToString(season[1])]
                       ELSE EmptyDict
         IN  MakeRequest(c, t, endpoint, TRUE, None, params, answers)

(***************************************************************************)
(* ESPNClient.parse_scoreboard: one event inside the try, in the order the *)
(* code evaluates, then the loop with its except clause.                   *)
(***************************************************************************)
\* next(c for c in competitors if c['homeAway'] == side)
RECURSIVE NextCompetitor(_, _, _)
NextCompetitor(competitors, i, side) ==
    IF i > Len(competitors) THEN [exc |-> "StopIteration", value |-> EmptyDict]
    ELSE IF "homeAway" \notin DOMAIN competitors[i]
    THEN [exc |-> "KeyError", value |-> EmptyDict]
    ELSE IF competitors[i].homeAway = side
    THEN [exc |-> NoExc, value |-> competitors[i]]
    ELSE NextCompetitor(competitors, i + 1, side)

\* variant: one record per home line score, an absent away line score
\* counting as {}
RECURSIVE ParsePeriodScoresHomeLength(_, _, _, _)
ParsePeriodScoresHomeLength(home_linescores, away_linescores, period, period_scores) ==
    IF period > Len(home_linescores)
    THEN [exc |-> NoExc, value |-> period_scores]
    ELSE LET away_ls == IF period > Len(away_linescores) THEN EmptyDict
                        ELSE away_linescores[period]
             home_score == PyInt(Get(home_linescores[period], "value", JInt(0)))
             away_score == PyInt(Get(away_ls, "value", JInt(0)))
         IN  IF home_score.exc # NoExc THEN [exc |-> home_score.exc, value |-> <<>>]
             ELSE IF away_score.exc # NoExc THEN [exc |-> away_score.exc, value |-> <<>>]
             ELSE ParsePeriodScoresHomeLength(home_linescores, away_linescores, period + 1,
                                              Append(period_scores,
                                                     [period |-> period,
                                                      home_score |-> home_score.value,
                                                      away_score |-> away_score.value]))

\* the zip over the two linescores lists
RECURSIVE ParsePeriodScores(_, _, _, _)
ParsePeriodScores(home_linescores, away_linescores, period, period_scores) ==
    IF period > Len(home_linescores) \/ period > Len(away_linescores)
    THEN [exc |-> NoExc, value |-> period_scores]
    ELSE LET home_score == PyInt(Get(home_linescores[period], "value", JInt(0)))
             away_score == PyInt(Get(away_linescores[period], "value", JInt(0)))
         IN  IF home_score.exc # NoExc THEN [exc |-> home_score.exc, value |-> <<>>]
             ELSE IF away_score.exc # NoExc THEN [exc |-> away_score.exc, value |-> <<>>]
             ELSE ParsePeriodScores(home_linescores, away_linescores, period + 1,
                                    Append(period_scores,
                                           [period |-> period,
                                            home_score |-> home_score.value,
                                            away_score |-> away_score.value]))

\* 'home_team': {...} / 'away_team': {...} of the game dict
TeamDict(competitor) ==
    IF "id" \notin DOMAIN competitor
       \/ "team" \notin DOMAIN competitor
       \/ "displayName" \notin DOMAIN competitor.team
       \/ "abbreviation" \notin DOMAIN competitor.team
    THEN [exc |-> "KeyError", value |-> EmptyDict]
    ELSE [exc |-> NoExc,
          value |-> [external_id |-> competitor.id,
                     name |-> competitor.team.displayName,
                     abbreviation |-> competitor.team.abbreviation]]

ParseScoreboardGame(event) ==
    LET Raise(exc) == [exc |-> exc, value |-> EmptyDict]
    IN  IF "competitions" \notin DOMAIN event THEN Raise("KeyError")
        ELSE IF event.competitions = <<>> THEN Raise("IndexError") ELSE
    LET competition == event.competitions[1]
    IN  IF "status" \notin DOMAIN competition THEN Raise("KeyError")
        ELSE IF "competitors" \notin DOMAIN competition THEN Raise("KeyError") ELSE
    LET home_team == NextCompetitor(competition.competitors, 1, "home")
    IN  IF home_team.exc # NoExc THEN Raise(home_team.exc) ELSE
    LET away_team == NextCompetitor(competition.competitors, 1, "away")
    IN  IF away_team.exc # NoExc THEN Raise(away_team.exc)
        ELSE IF "date" \notin DOMAIN event THEN Raise("KeyError")
        ELSE IF event.date.t = "null" THEN Raise("AttributeError") ELSE
    LET game_date == FromIsoFormat(ReplaceZ(event.date))
    IN  IF game_date.exc # NoExc THEN Raise(game_date.exc) ELSE
    LET period_scores == ParsePeriodScores(Get(home_team.value, "linescores", <<>>),
                                           Get(away_team.value, "linescores", <<>>),
                                           1, <<>>)
    IN  IF period_scores.exc # NoExc THEN Raise(period_scores.exc)
        ELSE IF "id" \notin DOMAIN event THEN Raise("KeyError")
        ELSE IF "type" \notin DOMAIN competition.status
                \/ "name" \notin DOMAIN competition.status.type
        THEN Raise("KeyError") ELSE
    LET home_dict == TeamDict(home_team.value)
        away_dict == TeamDict(away_team.value)
        home_score == PyInt(Get(home_team.value, "score", JInt(0)))
        away_score == PyInt(Get(away_team.value, "score", JInt(0)))
    IN  IF home_dict.exc # NoExc THEN Raise(home_dict.exc)
        ELSE IF away_dict.exc # NoExc THEN Raise(away_dict.exc)
        ELSE IF home_score.exc # NoExc THEN Raise(home_score.exc)
        ELSE IF away_score.exc # NoExc THEN Raise(away_score.exc)
        ELSE [exc |-> NoExc,
              value |-> [external_id |-> event.id,
                         game_date |-> game_date.value,
                         scheduled_time |-> event.date,
                         status |-> NormalizeStatus(competition.status.type.name),
                         home_team |-> home_dict.value,
                         away_team |-> away_dict.value,
                         home_score |-> home_score.value,
                         away_score |-> away_score.value,
                         period_scores |-> period_scores.value]]

RECURSIVE ParseScoreboardLoop(_, _, _)
ParseScoreboardLoop(events, i, result) ==
    IF i > Len(events)
    THEN [exc |-> NoExc, value |-> result]
    ELSE LET Rest(g) ==
                 IF g.exc = NoExc
                 THEN ParseScoreboardLoop(events, i + 1, Append(result, g.value))
                 ELSE IF g.exc \in {"KeyError", "IndexError", "ValueError"}
                 THEN ParseScoreboardLoop(events, i + 1, result)
                 ELSE [exc |-> g.exc, value |-> <<>>]
         IN  Only({Rest(x) : x \in {ParseScoreboardGame(events[i])}})

ParseScoreboard(data) == ParseScoreboardLoop(Get(data, "events", <<>>), 1, <<>>)



(***************************************************************************)
(* apps/core/models.py                                                     *)
(***************************************************************************)
DB == [leagues |-> leagues, teams |-> teams, games |-> games, scores |-> scores]

\* League rows, keyed by League.abbreviation (unique=True)
LeagueExists(db, abbreviation) == abbreviation \in DOMAIN db.leagues

\* Team.Meta: unique_together (league, abbreviation)
TeamAbbreviationTaken(db, league, abbreviation) ==
    \E t \in db.teams : t.league = league /\ t.abbreviation = abbreviation

\* Team.Meta: UniqueConstraint unique_team_external_id (league, external_id)
TeamExternalIdTaken(db, league, external_id) ==
    \E t \in db.teams : t.league = league /\ t.external_id = external_id

TeamKey(t) == [league |-> t.league, abbreviation |-> t.abbreviation]
NoTeam == [league |-> "", abbreviation |-> ""]

\* Score.Meta: unique_together (game, period)
ScorePeriodTaken(sc, game, period) ==
    \E s \in sc : s.game = game /\ s.period = period

(***************************************************************************)
(* SyncService._get_or_create_team: Team.objects.get_or_create keyed on    *)
(* (external_id, league); the create path is subject to both uniqueness    *)
(* constraints of Team, and get_or_create re-raises the IntegrityError     *)
(* when the second get finds nothing.                                      *)
(***************************************************************************)
\* variant: an update_or_create, the row found takes the attributes of
\* the team block
GetOrCreateTeamUpsert(db, league, team_data) ==
    LET found == {t \in db.teams : t.external_id = team_data.id /\ t.league = league}
        new == [league |-> league,
                external_id |-> team_data.id,
                abbreviation |-> team_data.abbreviation]
    IN  IF Cardinality(found) = 1
        THEN [db |-> [db EXCEPT !.teams = (@ \ found) \cup {new}], exc |-> NoExc,
              team |-> TeamKey(new)]
        ELSE IF Cardinality(found) > 1
        THEN [db |-> db, exc |-> "MultipleObjectsReturned", team |-> NoTeam]
        ELSE IF TeamAbbreviationTaken(db, league, team_data.abbreviation)
        THEN [db |-> db, exc |-> "IntegrityError", team |-> NoTeam]
        ELSE [db |-> [db EXCEPT !.teams = @ \cup {new}],
              exc |-> NoExc,
              team |-> TeamKey(new)]

GetOrCreateTeam(db, league, team_data) ==
    LET found == {t \in db.teams : t.external_id = team_data.id /\ t.league = league}
        new == [league |-> league,
                external_id |-> team_data.id,
                abbreviation |-> team_data.abbreviation]
    IN  IF Cardinality(found) = 1
        THEN [db |-> db, exc |-> NoExc, team |-> TeamKey(CHOOSE t \in found : TRUE)]
        ELSE IF Cardinality(found) > 1
        THEN [db |-> db, exc |-> "MultipleObjectsReturned", team |-> NoTeam]
        ELSE IF TeamAbbreviationTaken(db, league, team_data.abbreviation)
        THEN [db |-> db, exc |-> "IntegrityError", team |-> NoTeam]
        ELSE [db |-> [db EXCEPT !.teams = @ \cup {new}],
              exc |-> NoExc,
              team |-> TeamKey(new)]

(***************************************************************************)
(* SyncService._sync_period_scores: delete the game's Score rows, then     *)
(* create one row per record of the payload.                               *)
(***************************************************************************)
RECURSIVE CreateScores(_, _, _, _)
CreateScores(sc, game, period_scores, i) ==
    IF i > Len(period_scores)
    THEN [scores |-> sc, exc |-> NoExc]
    ELSE IF ScorePeriodTaken(sc, game, period_scores[i].period)
    THEN [scores |-> sc, exc |-> "IntegrityError"]
    ELSE CreateScores(sc \cup {[game |-> game,
                                period |-> period_scores[i].period,
                                home_score |-> period_scores[i].home_score,
                                away_score |-> period_scores[i].away_score]},
                      game, period_scores, i + 1)

\* variant: keeps the rows of periods the payload does not mention
SyncPeriodScoresMerge(db, game, period_scores) ==
    LET mentioned == {period_scores[i].period : i \in DOMAIN period_scores}
        cleared == {s \in db.scores : s.game # game \/ s.period \notin mentioned}
        r == CreateScores(cleared, game, period_scores, 1)
    IN  [db |-> [db EXCEPT !.scores = r.scores], exc |-> r.exc]

SyncPeriodScores(db, game, period_scores) ==
    LET cleared == {s \in db.scores : s.game # game}
        r == CreateScores(cleared, game, period_scores, 1)
    IN  [db |-> [db EXCEPT !.scores = r.scores], exc |-> r.exc]

(***************************************************************************)
(* Game.objects.update_or_create(external_id=..., defaults=...) as called  *)
(* by sync_games.  Game.external_id carries no uniqueness constraint.      *)
(***************************************************************************)
\* variant: the block without its try/except
ParseScheduledTimeNoCatch(game_data) ==
    LET value == Get(game_data, "scheduled_time", JNull)
    IN  IF value.t = "null" THEN [exc |-> NoExc, value |-> None]
        ELSE IF value.t # "str" THEN [exc |-> "AttributeError", value |-> None]
        ELSE LET parsed == FromIsoFormat(ReplaceZ(value))
             IN  [exc |-> parsed.exc,
                  value |-> IF parsed.exc = NoExc THEN Some(parsed.value) ELSE None]

\* the scheduled_time block of sync_games: None when the value is falsy or
\* cannot be parsed, the parsed instant otherwise; a truthy value that is
\* no string has no replace method
ParseScheduledTime(game_data) ==
    LET value == Get(game_data, "scheduled_time", JNull)
        falsy == \/ value.t = "null"
                 \/ value.t = "int" /\ value.n = 0
                 \/ value.t = "str" /\ "text" \in DOMAIN value /\ value.text = ""
    IN  IF falsy THEN [exc |-> NoExc, value |-> None]
        ELSE IF value.t # "str" THEN [exc |-> "AttributeError", value |-> None]
        ELSE LET parsed == FromIsoFormat(ReplaceZ(value))
             IN  IF parsed.exc = "ValueError"
                 THEN [exc |-> NoExc, value |-> None]
                 ELSE [exc |-> NoExc, value |-> Some(parsed.value)]

\* timezone.make_aware(datetime.combine(date, datetime.min.time())), day 0
\* being 2024-01-15
Midnight(date) == <<2024, 1, 15 + date, 0, 0>>

\* variant: game_date is the day of the parsed scheduled time when there is one
GameRowFromScheduledTime(league, home_team, away_team, game_date, scheduled_time, game_data) ==
    [external_id |-> game_data.id,
     league |-> league,
     home_team |-> home_team,
     away_team |-> away_team,
     game_date |-> IF scheduled_time = None THEN game_date
                   ELSE <<scheduled_time[1][1][1], scheduled_time[1][1][2],
                          scheduled_time[1][1][3], 0, 0>>,
     scheduled_time |-> scheduled_time,
     status |-> game_data.status,
     home_score |-> game_data.home_score,
     away_score |-> game_data.away_score]

GameRow(league, home_team, away_team, game_date, scheduled_time, game_data) ==
    [external_id |-> game_data.id,
     league |-> league,
     home_team |-> home_team,
     away_team |-> away_team,
     game_date |-> game_date,
     scheduled_time |-> scheduled_time,
     status |-> game_data.status,
     home_score |-> game_data.home_score,
     away_score |-> game_data.away_score]

UpdateOrCreateGame(db, row) ==
    LET found == {i \in DOMAIN db.games : db.games[i].external_id = row.external_id}
    IN  IF found = {}
        THEN [db |-> [db EXCEPT !.games = Append(@, row)], exc |-> NoExc,
              game |-> Len(db.games) + 1, is_created |-> TRUE]
        ELSE IF Cardinality(found) = 1
        THEN LET i == CHOOSE j \in found : TRUE
             IN  [db |-> [db EXCEPT !.games[i] = row], exc |-> NoExc,
                  game |-> i, is_created |-> FALSE]
        ELSE [db |-> db, exc |-> "MultipleObjectsReturned",
              game |-> 0, is_created |-> FALSE]

(***************************************************************************)
(* SyncService.sync_games: one record of the loop body, then the loop,     *)
(* then the method under @transaction.atomic (a raise restores the store). *)
(* A game record is a dict; has_period_scores tells whether it has the key *)
(* "period_scores" (game_data.get("period_scores") is falsy without it and *)
(* with an empty list).                                                    *)
(***************************************************************************)
SyncOneGame(st, league, date, game_data) ==
    LET AfterGame(g) ==
            IF g.exc # NoExc THEN [st EXCEPT !.exc = g.exc] ELSE
            LET created == IF g.is_created THEN st.created + 1 ELSE st.created
                updated == IF g.is_created THEN st.updated ELSE st.updated + 1
            IN  IF game_data.has_period_scores /\ Len(game_data.period_scores) > 0
                THEN LET p == SyncPeriodScores(g.db, g.game, game_data.period_scores)
                     IN  [db |-> p.db, exc |-> p.exc, created |-> created, updated |-> updated]
                ELSE [db |-> g.db, exc |-> NoExc, created |-> created, updated |-> updated]
        AfterHome(h) ==
            IF h.exc # NoExc THEN [st EXCEPT !.exc = h.exc] ELSE
            LET AfterAway(a) ==
                    IF a.exc # NoExc THEN [st EXCEPT !.exc = a.exc] ELSE
                    LET scheduled_time == ParseScheduledTime(game_data)
                    IN  IF scheduled_time.exc # NoExc
                        THEN [st EXCEPT !.exc = scheduled_time.exc]
                        ELSE Only({AfterGame(x) : x \in
                                     {UpdateOrCreateGame(a.db,
                                          GameRow(league, h.team, a.team, Midnight(date),
                                                  scheduled_time.value, game_data))}})
            IN  Only({AfterAway(x) : x \in {GetOrCreateTeam(h.db, league, game_data.away_team)}})
    IN  Only({AfterHome(x) : x \in {GetOrCreateTeam(st.db, league, game_data.home_team)}})

RECURSIVE SyncGamesLoop(_, _, _, _, _)
SyncGamesLoop(st, league, date, scoreboard_data, i) ==
    IF st.exc # NoExc \/ i > Len(scoreboard_data)
    THEN st
    ELSE LET Rest(next) == SyncGamesLoop(next, league, date, scoreboard_data, i + 1)
         IN  Only({Rest(x) : x \in {SyncOneGame(st, league, date, scoreboard_data[i])}})

\* variant: without @transaction.atomic, the writes made before the raise
\* stay in the store
SyncGamesNoRollback(db, league_abbr, date, fetch) ==
    IF ~LeagueExists(db, league_abbr)
    THEN [db |-> db, exc |-> "DoesNotExist", value |-> <<0, 0>>]
    ELSE IF ~fetch.ok
    THEN [db |-> db, exc |-> "ESPNAPIError", value |-> <<0, 0>>]
    ELSE LET Rest(st) ==
                 IF st.exc # NoExc
                 THEN [db |-> st.db, exc |-> st.exc, value |-> <<0, 0>>]
                 ELSE [db |-> st.db, exc |-> NoExc, value |-> <<st.created, st.updated>>]
         IN  Only({Rest(x) : x \in {SyncGamesLoop([db |-> db, exc |-> NoExc, created |-> 0, updated |-> 0],
                                  league_abbr, IF date = None THEN 0 ELSE date[1],
                                  fetch.data, 1)}})

\* fetch is what espn_client.get_scoreboard does for this call: it raises
\* (ok = FALSE) or returns the list of game records fetch.data.  date is
\* None or a day number; timezone.now().date() is day 0.
SyncGames(db, league_abbr, date, fetch) ==
    IF ~LeagueExists(db, league_abbr)
    THEN [db |-> db, exc |-> "DoesNotExist", value |-> <<0, 0>>]
    ELSE IF ~fetch.ok
    THEN [db |-> db, exc |-> "ESPNAPIError", value |-> <<0, 0>>]
    ELSE LET Rest(st) ==
                 IF st.exc # NoExc
                 THEN [db |-> db, exc |-> st.exc, value |-> <<0, 0>>]
                 ELSE [db |-> st.db, exc |-> NoExc, value |-> <<st.created, st.updated>>]
         IN  Only({Rest(x) : x \in {SyncGamesLoop([db |-> db, exc |-> NoExc, created |-> 0, updated |-> 0],
                                  league_abbr, IF date = None THEN 0 ELSE date[1],
                                  fetch.data, 1)}})

\* sync_games whose worker is killed by the task's time_limit after k
\* records of the loop: what raised before that has raised; otherwise the
\* transaction opened by @transaction.atomic is never committed.
SyncGamesTerminated(db, league_abbr, date, fetch, k) ==
    LET Rest(r) ==
            IF r.exc # NoExc THEN r
            ELSE [db |-> db, exc |-> "TimeLimitExceeded", value |-> <<0, 0>>]
    IN  Only({Rest(x) : x \in
                {SyncGames(db, league_abbr, date,
                           [fetch EXCEPT !.data = SubSeq(@, 1, k)])}})

(***************************************************************************)
(* SyncService.sync_leagues: get_or_create per entry of the static list,   *)
(* then an update of name and sport_type when they differ.                 *)
(***************************************************************************)
LeagueAbbrs == <<"NFL", "NBA", "MLB", "NHL">>

LeaguesData ==
    [NFL |-> [name |-> "National Football League", sport_type |-> "football"],
     NBA |-> [name |-> "National Basketball Association", sport_type |-> "basketball"],
     MLB |-> [name |-> "Major League Baseball", sport_type |-> "baseball"],
     NHL |-> [name |-> "National Hockey League", sport_type |-> "hockey"]]

RECURSIVE SyncLeaguesLoop(_, _)
SyncLeaguesLoop(st, i) ==
    IF i > Len(LeagueAbbrs)
    THEN st
    ELSE LET abbr == LeagueAbbrs[i]
             data == LeaguesData[abbr]
         IN  IF ~LeagueExists(st.db, abbr)
             THEN SyncLeaguesLoop([st EXCEPT !.db.leagues = DictSet(@, abbr, data),
                                             !.created = @ + 1], i + 1)
             ELSE IF st.db.leagues[abbr].name # data.name
                     \/ st.db.leagues[abbr].sport_type # data.sport_type
             THEN SyncLeaguesLoop([st EXCEPT !.db.leagues = DictSet(@, abbr, data),
                                             !.updated = @ + 1], i + 1)
             ELSE SyncLeaguesLoop(st, i + 1)

\* variant: every league that already existed counts as updated
SyncLeaguesCountExisting(db) ==
    LET st == SyncLeaguesLoop([db |-> db, created |-> 0, updated |-> 0], 1)
    IN  [db |-> st.db, exc |-> NoExc,
         value |-> <<st.created, Len(LeagueAbbrs) - st.created>>]

SyncLeagues(db) ==
    LET st == SyncLeaguesLoop([db |-> db, created |-> 0, updated |-> 0], 1)
    IN  [db |-> st.db, exc |-> NoExc, value |-> <<st.created, st.updated>>]

(***************************************************************************)
(* SyncService.sync_live_games: one sync_games per league of its scope,    *)
(* the store carried from unit to unit.  fetchOf[league] is what the       *)
(* client does when that league's scoreboard is requested.  units logs the *)
(* sync_games calls made and how each ended.                               *)
(***************************************************************************)
NoLeague == "None"

LiveGamesScope(league_abbr) ==
    IF league_abbr # NoLeague THEN <<league_abbr>> ELSE LeagueAbbrs

\* the try/except around one unit: the entry stored in results, and the
\* exception that leaves the loop (none: both handlers swallow)
\* variant: only League.DoesNotExist is handled
LiveGamesUnitNarrowCatch(r) ==
    IF r.exc = NoExc
    THEN [entry |-> r.value, exc |-> NoExc]
    ELSE IF r.exc = "DoesNotExist"
    THEN [entry |-> <<0, 0>>, exc |-> NoExc]
    ELSE [entry |-> <<0, 0>>, exc |-> r.exc]

LiveGamesUnit(r) ==
    IF r.exc = NoExc
    THEN [entry |-> r.value, exc |-> NoExc]
    ELSE IF r.exc = "DoesNotExist"
    THEN [entry |-> <<0, 0>>, exc |-> NoExc]
    ELSE [entry |-> <<0, 0>>, exc |-> NoExc]

RECURSIVE SyncLiveGamesLoop(_, _, _, _)
SyncLiveGamesLoop(st, scope, fetchOf, i) ==
    IF st.exc # NoExc \/ i > Len(scope)
    THEN st
    ELSE LET league == scope[i]
             Rest(r) ==
                 LET u == LiveGamesUnit(r)
                 IN  SyncLiveGamesLoop(
                         [db |-> r.db,
                          exc |-> u.exc,
                          value |-> IF u.exc = NoExc THEN DictSet(st.value, league, u.entry)
                                    ELSE st.value,
                          units |-> Append(st.units, [unit |-> league, exc |-> r.exc, value |-> r.value])],
                         scope, fetchOf, i + 1)
         IN  Only({Rest(x) : x \in {SyncGames(st.db, league, None, fetchOf[league])}})

SyncLiveGames(db, league_abbr, fetchOf) ==
    SyncLiveGamesLoop([db |-> db, exc |-> NoExc, value |-> EmptyDict, units |-> <<>>],
                      LiveGamesScope(league_abbr), fetchOf, 1)

(***************************************************************************)
(* SyncService.sync_date_range: start_date.date() and end_date.date(),     *)
(* then one sync_games per date while current_date <= end, the result      *)
(* keyed by current_date.isoformat().  A datetime is [t |-> "datetime",    *)
(* day |-> n] and a date is [t |-> "date", day |-> n], day 0 being         *)
(* 2024-01-15; a date has no date() method.  fetchOf[date] is what the     *)
(* client does for that date.                                              *)
(***************************************************************************)
\* date.isoformat(), for the days of January 2024 from the 15th on
IsoFormat(date) == "2024-01-" \o ToString(15 + date)

DateRangeUnit(r) ==
    IF r.exc = NoExc
    THEN [entry |-> r.value, exc |-> NoExc]
    ELSE [entry |-> <<0, 0>>, exc |-> NoExc]

RECURSIVE SyncDateRangeLoop(_, _, _, _, _)
SyncDateRangeLoop(st, league_abbr, current_date, end, fetchOf) ==
    IF st.exc # NoExc \/ ~(current_date <= end)
    THEN st
    ELSE LET Rest(r) ==
                 LET u == DateRangeUnit(r)
                 IN  SyncDateRangeLoop(
                         [db |-> r.db,
                          exc |-> u.exc,
                          value |-> IF u.exc = NoExc
                                    THEN DictSet(st.value, IsoFormat(current_date), u.entry)
                                    ELSE st.value,
                          units |-> Append(st.units, [unit |-> current_date, exc |-> r.exc, value |-> r.value])],
                         league_abbr, current_date + 1, end, fetchOf)
         IN  Only({Rest(x) : x \in {SyncGames(st.db, league_abbr, Some(current_date), fetchOf[current_date])}})

\* variant: the end date is not part of the range
SyncDateRangeExclusive(db, league_abbr, start_date, end_date, fetchOf) ==
    SyncDateRangeLoop([db |-> db, exc |-> NoExc, value |-> EmptyDict, units |-> <<>>],
                      league_abbr, start_date.day, end_date.day - 1, fetchOf)

SyncDateRange(db, league_abbr, start_date, end_date, fetchOf) ==
    IF start_date.t # "datetime" \/ end_date.t # "datetime"
    THEN [db |-> db, exc |-> "AttributeError", value |-> EmptyDict, units |-> <<>>]
    ELSE SyncDateRangeLoop([db |-> db, exc |-> NoExc, value |-> EmptyDict, units |-> <<>>],
                           league_abbr, start_date.day, end_date.day, fetchOf)

(***************************************************************************)
(* SyncService.sync_teams: Team.objects.update_or_create keyed on          *)
(* (abbreviation, league) with external_id among the defaults, under       *)
(* @transaction.atomic.                                                    *)
(***************************************************************************)
UpdateOrCreateTeam(db, league, team_data) ==
    LET found == {t \in db.teams : t.abbreviation = team_data.abbreviation /\ t.league = league}
        new == [league |-> league,
                external_id |-> team_data.id,
                abbreviation |-> team_data.abbreviation]
        others == [db EXCEPT !.teams = @ \ found]
    IN  IF Cardinality(found) > 1
        THEN [db |-> db, exc |-> "MultipleObjectsReturned", is_created |-> FALSE]
        ELSE IF TeamExternalIdTaken(others, league, team_data.id)
        THEN [db |-> db, exc |-> "IntegrityError", is_created |-> FALSE]
        ELSE [db |-> [db EXCEPT !.teams = (@ \ found) \cup {new}],
              exc |-> NoExc, is_created |-> found = {}]

RECURSIVE SyncTeamsLoop(_, _, _, _)
SyncTeamsLoop(st, league, teams_data, i) ==
    IF st.exc # NoExc \/ i > Len(teams_data)
    THEN st
    ELSE LET Rest(t) ==
                 SyncTeamsLoop(
                     [db |-> t.db, exc |-> t.exc,
                      created |-> IF t.exc = NoExc /\ t.is_created THEN st.created + 1 ELSE st.created,
                      updated |-> IF t.exc = NoExc /\ ~t.is_created THEN st.updated + 1 ELSE st.updated],
                     league, teams_data, i + 1)
         IN  Only({Rest(x) : x \in {UpdateOrCreateTeam(st.db, league, teams_data[i])}})

SyncTeams(db, league_abbr, fetch) ==
    IF ~LeagueExists(db, league_abbr)
    THEN [db |-> db, exc |-> "DoesNotExist", value |-> <<0, 0>>]
    ELSE IF ~fetch.ok
    THEN [db |-> db, exc |-> "ESPNAPIError", value |-> <<0, 0>>]
    ELSE LET Rest(st) ==
                 IF st.exc # NoExc
                 THEN [db |-> db, exc |-> st.exc, value |-> <<0, 0>>]
                 ELSE [db |-> st.db, exc |-> NoExc, value |-> <<st.created, st.updated>>]
         IN  Only({Rest(x) : x \in {SyncTeamsLoop([db |-> db, exc |-> NoExc, created |-> 0, updated |-> 0],
                                  league_abbr, fetch.data, 1)}})

(***************************************************************************)
(* tasks.sync_daily_schedule: for each league, for today and tomorrow, one *)
(* service.sync_games inside try/except.  fetchOf[<<league, date>>] is     *)
(* what the client does for that unit.  len(games) is the length of the    *)
(* (created, updated) tuple sync_games returns.                            *)
(***************************************************************************)
DailyUnits(today) ==
    [i \in 1..(2 * Len(LeagueAbbrs)) |->
        <<LeagueAbbrs[(i + 1) \div 2], IF i % 2 = 1 THEN today ELSE today + 1>>]

\* the try/except around one unit: what is added to results["synced"], the
\* entries appended to results["errors"], the exception that leaves the loop
\* variant: no try/except around the unit
DailyScheduleUnitNoCatch(unit, r) ==
    IF r.exc = NoExc
    THEN [synced |-> Len(r.value), errors |-> <<>>, exc |-> NoExc]
    ELSE [synced |-> 0, errors |-> <<>>, exc |-> r.exc]

DailyScheduleUnit(unit, r) ==
    IF r.exc = NoExc
    THEN [synced |-> Len(r.value), errors |-> <<>>, exc |-> NoExc]
    ELSE [synced |-> 0,
          errors |-> <<[league |-> unit[1], date |-> unit[2], message |-> r.exc]>>,
          exc |-> NoExc]

RECURSIVE SyncDailyScheduleLoop(_, _, _, _)
SyncDailyScheduleLoop(st, units, fetchOf, i) ==
    IF st.exc # NoExc \/ i > Len(units)
    THEN st
    ELSE LET Rest(r) ==
                 LET u == DailyScheduleUnit(units[i], r)
                 IN  SyncDailyScheduleLoop(
                         [db |-> r.db,
                          exc |-> u.exc,
                          value |-> [synced |-> st.value.synced + u.synced,
                                     errors |-> st.value.errors \o u.errors],
                          units |-> Append(st.units, [unit |-> units[i], exc |-> r.exc, value |-> r.value])],
                         units, fetchOf, i + 1)
         IN  Only({Rest(x) : x \in {SyncGames(st.db, units[i][1], Some(units[i][2]), fetchOf[units[i]])}})

SyncDailySchedule(db, today, fetchOf) ==
    SyncDailyScheduleLoop([db |-> db, exc |-> NoExc,
                           value |-> [synced |-> 0, errors |-> <<>>],
                           units |-> <<>>],
                          DailyUnits(today), fetchOf, 1)

(***************************************************************************)
(* tasks.sync_all_live_games: for each league one                          *)
(* service.sync_live_games(league) inside try/except; len(games) is the    *)
(* number of entries of the dict sync_live_games returns.                  *)
(***************************************************************************)
AllLiveGamesUnit(league, r) ==
    IF r.exc = NoExc
    THEN [synced |-> Cardinality(DOMAIN r.value), errors |-> <<>>, exc |-> NoExc]
    ELSE [synced |-> 0,
          errors |-> <<[league |-> league, message |-> r.exc]>>,
          exc |-> NoExc]

RECURSIVE SyncAllLiveGamesLoop(_, _, _)
SyncAllLiveGamesLoop(st, fetchOf, i) ==
    IF st.exc # NoExc \/ i > Len(LeagueAbbrs)
    THEN st
    ELSE LET league == LeagueAbbrs[i]
             Rest(r) ==
                 LET u == AllLiveGamesUnit(league, r)
                 IN  SyncAllLiveGamesLoop(
                         [db |-> r.db,
                          exc |-> u.exc,
                          value |-> [synced |-> st.value.synced + u.synced,
                                     errors |-> st.value.errors \o u.errors],
                          units |-> st.units \o r.units],
                         fetchOf, i + 1)
         IN  Only({Rest(x) : x \in {SyncLiveGames(st.db, league, fetchOf)}})

SyncAllLiveGames(db, fetchOf) ==
    SyncAllLiveGamesLoop([db |-> db, exc |-> NoExc,
                          value |-> [synced |-> 0, errors |-> <<>>],
                          units |-> <<>>],
                         fetchOf, 1)

(***************************************************************************)
(* tasks.sync_date_range_task: both arguments through                      *)
(* datetime.strptime(s, "%Y-%m-%d").date(), then service.sync_date_range   *)
(* on the two dates, all inside one try/except Exception.                  *)
(***************************************************************************)
\* datetime.strptime(s, "%Y-%m-%d").date() on a sequence of characters, as
\* the day number of a date of 2024
Strptime(s) ==
    LET dashes == {i \in DOMAIN s : s[i] = "-"}
        a == CHOOSE i \in dashes : \A j \in dashes : i <= j
        b == CHOOSE i \in dashes : \A j \in dashes : j <= i
        year == SubSeq(s, 1, a - 1)
        month == SubSeq(s, a + 1, b - 1)
        day == SubSeq(s, b + 1, Len(s))
        AllDigits(x) == \A i \in DOMAIN x : x[i] \in SetOf(Digits)
        y == DigitsValue(year, 0)
        m == DigitsValue(month, 0)
        d == DigitsValue(day, 0)
        RECURSIVE DaysBefore(_)
        DaysBefore(k) == IF k = 1 THEN 0 ELSE DaysIn(y, k - 1) + DaysBefore(k - 1)
    IN  IF /\ Cardinality(dashes) = 2
           /\ Len(year) = 4 /\ AllDigits(year)
           /\ Len(month) \in 1..2 /\ AllDigits(month) /\ m \in 1..12
           /\ Len(day) \in 1..2 /\ AllDigits(day) /\ d \in 1..DaysIn(y, m)
        THEN [exc |-> NoExc, value |-> [t |-> "date", day |-> DaysBefore(m) + d - 15]]
        ELSE [exc |-> "ValueError", value |-> PyNone]

SyncDateRangeTask(db, league, start_date, end_date, fetchOf) ==
    LET start == Strptime(start_date)
        end == Strptime(end_date)
        Failed(exc) ==
            [db |-> db, exc |-> NoExc,
             value |-> [synced |-> 0, errors |-> <<[league |-> league, message |-> exc]>>],
             units |-> <<>>]
    IN  IF start.exc # NoExc THEN Failed(start.exc)
        ELSE IF end.exc # NoExc THEN Failed(end.exc)
        ELSE LET Rest(r) ==
                     IF r.exc # NoExc
                     THEN [Failed(r.exc) EXCEPT !.db = r.db, !.units = r.units]
                     ELSE [db |-> r.db, exc |-> NoExc,
                           value |-> [synced |-> Cardinality(DOMAIN r.value),
                                      errors |-> <<>>],
                           units |-> r.units]
             IN  Only({Rest(x) : x \in
                         {SyncDateRange(db, league, start.value, end.value, fetchOf)}})

(***************************************************************************)
(* Inputs: what the upstream client hands to the sync service.             *)
(***************************************************************************)
TeamKC == [id |-> "12", abbreviation |-> "KC"]
TeamBUF == [id |-> "2", abbreviation |-> "BUF"]
\* the abbreviation KC under another provider id
TeamKCOther == [id |-> "2012", abbreviation |-> "KC"]

Period(p, h, a) == [period |-> p, home_score |-> h, away_score |-> a]

GameId == "401547403"

\* the bodies of a game record: its teams, status, scores and period scores
Bodies ==
    [periods_12 |->
        [home_team |-> TeamKC, away_team |-> TeamBUF, status |-> "live",
         home_score |-> 17, away_score |-> 14,
         has_period_scores |-> TRUE,
         period_scores |-> <<Period(1, 7, 0), Period(2, 10, 14)>>],
     periods_1 |->
        [home_team |-> TeamKC, away_team |-> TeamBUF, status |-> "final",
         home_score |-> 3, away_score |-> 0,
         has_period_scores |-> TRUE,
         period_scores |-> <<Period(1, 3, 0)>>],
     no_periods_key |->
        [home_team |-> TeamKC, away_team |-> TeamBUF, status |-> "scheduled",
         home_score |-> 0, away_score |-> 0,
         has_period_scores |-> FALSE,
         period_scores |-> <<>>],
     empty_periods |->
        [home_team |-> TeamKC, away_team |-> TeamBUF, status |-> "final",
         home_score |-> 3, away_score |-> 0,
         has_period_scores |-> TRUE,
         period_scores |-> <<>>],
     repeated_period |->
        [home_team |-> TeamKC, away_team |-> TeamBUF, status |-> "live",
         home_score |-> 10, away_score |-> 0,
         has_period_scores |-> TRUE,
         period_scores |-> <<Period(1, 7, 0), Period(1, 3, 0)>>],
     other_kc |->
        [home_team |-> TeamKCOther, away_team |-> TeamBUF, status |-> "scheduled",
         home_score |-> 0, away_score |-> 0,
         has_period_scores |-> FALSE,
         period_scores |-> <<>>],
     \* the team block carries another abbreviation for the id of KC
     renamed_kc |->
        [home_team |-> [id |-> TeamKC.id, abbreviation |-> "KAN"], away_team |-> TeamBUF,
         status |-> "scheduled",
         home_score |-> 0, away_score |-> 0,
         has_period_scores |-> FALSE,
         period_scores |-> <<>>]]

\* the scheduled_time values of a record: "2024-01-15T20:00:00Z", a time
\* on the day after, a text that is no date, the empty string, null and a
\* number
ScheduledTimes ==
    [kick_off |-> [t |-> "str", iso |-> <<2024, 1, 15, 20, 0>>, tz |-> "Z"],
     next_day |-> [t |-> "str", iso |-> <<2024, 1, 16, 1, 0>>, tz |-> "Z"],
     invalid |-> [t |-> "str", text |-> "invalid-date"],
     empty |-> [t |-> "str", text |-> ""],
     null |-> JNull,
     number |-> JInt(1705348800)]

GameRecord(id, b) ==
    [id |-> id, home_team |-> b.home_team, away_team |-> b.away_team,
     status |-> b.status, home_score |-> b.home_score, away_score |-> b.away_score,
     scheduled_time |-> Get(b, "scheduled_time", ScheduledTimes.kick_off),
     has_period_scores |-> b.has_period_scores, period_scores |-> b.period_scores]

\* the scheduled game with the scheduled_time of that name
TimedRecord(k) ==
    GameRecord(GameId, [x \in DOMAIN Bodies.no_periods_key \cup {"scheduled_time"} |->
                          IF x = "scheduled_time" THEN ScheduledTimes[k]
                          ELSE Bodies.no_periods_key[x]])

GameRecords ==
    {GameRecord(GameId, Bodies[k]) : k \in DOMAIN Bodies}
    \cup {GameRecord("401547404", b) : b \in {Bodies.periods_12, Bodies.no_periods_key}}
    \cup {TimedRecord(k) : k \in DOMAIN ScheduledTimes \ {"kick_off"}}

SeqsUpTo(S, n) == UNION {[1..k -> S] : k \in 0..n}

FetchFailed == [ok |-> FALSE, data |-> <<>>]
Fetched(data) == [ok |-> TRUE, data |-> data]

GameFetches == {FetchFailed} \cup {Fetched(b) : b \in SeqsUpTo(GameRecords, MaxBatch)}
TeamFetches == {FetchFailed, Fetched(<<TeamKC, TeamBUF>>), Fetched(<<TeamKCOther>>)}

SyncLeagueArgs == {"NFL"}
SyncDateArgs == {None, Some(1)}

(***************************************************************************)
(* Celery.  config/celery.py: beat sends sync_all_live_games every 60 s,   *)
(* each message expiring 55 s after it was sent.  tasks.py: the options of *)
(* the shared tasks.  celery is the broker and one worker: pool is the     *)
(* number of tasks the worker executes at a time, due the instant of the   *)
(* next beat, queue the messages not yet received, active the task         *)
(* executions in progress, state the state of the last execution that      *)
(* ended.                                                                  *)
(***************************************************************************)
beat_schedule == [task |-> "sync_all_live_games", schedule |-> 60, expires |-> 55]

task_options ==
    [sync_all_live_games |-> [max_retries |-> 3, countdown |-> 5, time_limit |-> 300],
     sync_daily_schedule |-> [max_retries |-> 3, countdown |-> 60, time_limit |-> 600],
     sync_all_leagues |-> [max_retries |-> 2, countdown |-> 300, time_limit |-> 1800],
     sync_all_teams |-> [max_retries |-> 2, countdown |-> 300, time_limit |-> 3600],
     sync_date_range_task |-> [max_retries |-> 2, countdown |-> 300, time_limit |-> 3600]]

\* autoretry_for=(Exception,): a task that raises is retried while it has
\* retries left; a task that returns has succeeded
AutoRetry(task, exc, retries) ==
    IF exc = NoExc THEN "SUCCESS"
    ELSE IF retries < task_options[task].max_retries THEN "RETRY"
    ELSE "FAILURE"

NoCelery == [pool |-> 1, due |-> 0, queue |-> <<>>, active |-> {}, state |-> "PENDING"]

(***************************************************************************)
(* Specification Spec: the single-scope operations of the sync service on  *)
(* one store.  ret is the last call: its arguments, what the client        *)
(* returned to it, its outcome and the sync_games units it ran.            *)
(***************************************************************************)
NoCall == [op |-> "none", args |-> <<>>, fetch |-> FetchFailed,
           exc |-> NoExc, value |-> <<0, 0>>, units |-> <<>>]

\* the client is not part of this specification: its state stays as created
NoClient ==
    /\ cache = EmptyDict
    /\ now = 0
    /\ io = NoIO
    /\ upstream = <<TransportError>>

Init ==
    /\ leagues \in {EmptyDict, [l \in {"NFL"} |-> LeaguesData[l]]}
    /\ teams = {}
    /\ games = <<>>
    /\ scores = {}
    /\ ret = NoCall
    /\ runs = 0
    /\ NoClient
    /\ celery = NoCelery

Commit(r) ==
    /\ leagues' = r.db.leagues
    /\ teams' = r.db.teams
    /\ games' = r.db.games
    /\ scores' = r.db.scores

SyncLeaguesAct ==
    \E r \in {SyncLeagues(DB)} :
        /\ Commit(r)
        /\ ret' = [op |-> "sync_leagues", args |-> <<>>, fetch |-> FetchFailed,
                   exc |-> r.exc, value |-> r.value, units |-> <<>>]
        /\ UNCHANGED <<celery, runs, clientVars>>

SyncTeamsAct ==
    \E league \in SyncLeagueArgs, fetch \in TeamFetches :
        \E r \in {SyncTeams(DB, league, fetch)} :
            /\ Commit(r)
            /\ ret' = [op |-> "sync_teams", args |-> <<league>>, fetch |-> fetch,
                       exc |-> r.exc, value |-> r.value, units |-> <<>>]
            /\ UNCHANGED <<celery, runs, clientVars>>

SyncGamesAct ==
    \E league \in SyncLeagueArgs, date \in SyncDateArgs, fetch \in GameFetches :
        \E r \in {SyncGames(DB, league, date, fetch)} :
            /\ Commit(r)
            /\ ret' = [op |-> "sync_games", args |-> <<league, date>>, fetch |-> fetch,
                       exc |-> r.exc, value |-> r.value, units |-> <<>>]
            /\ UNCHANGED <<celery, runs, clientVars>>

\* sync_games cut short by the time limit of the job that called it, on
\* a scoreboard that holds the game with one period score
SyncGamesTerminatedAct ==
    \E league \in SyncLeagueArgs, date \in {None},
       fetch \in {Fetched(<<GameRecord(GameId, Bodies.periods_1)>>)} :
      \E k \in 0..Len(fetch.data) :
        \E r \in {SyncGamesTerminated(DB, league, date, fetch, k)} :
            /\ Commit(r)
            /\ ret' = [op |-> "sync_games", args |-> <<league, date>>, fetch |-> fetch,
                       exc |-> r.exc, value |-> r.value, units |-> <<>>]
            /\ UNCHANGED <<celery, runs, clientVars>>

Next == SyncLeaguesAct \/ SyncTeamsAct \/ SyncGamesAct \/ SyncGamesTerminatedAct

Spec == Init /\ [][Next]_vars

(***************************************************************************)
(* Specification SpecUnits: the multi-unit operations of the service on    *)
(* one store; runs counts the operations started.                          *)
(***************************************************************************)
UnitRecord == GameRecord(GameId, Bodies.periods_12)
UnitFetches == {FetchFailed, Fetched(<<>>), Fetched(<<UnitRecord>>)}
RangeFetches == UnitFetches \cup {Fetched(<<GameRecord(GameId, Bodies.other_kc)>>)}
JobFetches == {FetchFailed, Fetched(<<UnitRecord>>)}

Days == 0..MaxDay

\* the League table at the start: without NBA, complete, and with an NFL
\* row under an old name next to a league that is not in the static list
InitUnitLeagues ==
    {[l \in {"NFL", "MLB", "NHL"} |-> LeaguesData[l]],
     [l \in SetOf(LeagueAbbrs) |-> LeaguesData[l]],
     [NFL |-> [name |-> "Old NFL Name", sport_type |-> "old_football"],
      NCAAF |-> [name |-> "NCAA Football", sport_type |-> "football"]]}

InitUnits ==
    /\ leagues \in InitUnitLeagues
    /\ teams = {}
    /\ games = <<>>
    /\ scores = {}
    /\ ret = NoCall
    /\ runs = 0
    /\ NoClient
    /\ celery = NoCelery

SyncLiveGamesAct ==
    /\ runs < MaxRuns
    /\ \E league_abbr \in {NoLeague} \cup SetOf(LeagueAbbrs) :
      \E fetchOf \in [SetOf(LiveGamesScope(league_abbr)) -> UnitFetches] :
        \E r \in {SyncLiveGames(DB, league_abbr, fetchOf)} :
            /\ Commit(r)
            /\ ret' = [op |-> "sync_live_games", args |-> <<league_abbr>>,
                       fetch |-> FetchFailed, exc |-> r.exc, value |-> r.value,
                       units |-> r.units]
            /\ runs' = runs + 1
            /\ UNCHANGED <<clientVars, celery>>

SyncDateRangeAct ==
    /\ runs < MaxRuns
    /\ \E league_abbr \in {"NFL", "NBA"}, start_date \in Days, end_date \in Days :
      \E fetchOf \in [start_date..end_date -> RangeFetches] :
        \E r \in {SyncDateRange(DB, league_abbr, [t |-> "datetime", day |-> start_date],
                                [t |-> "datetime", day |-> end_date], fetchOf)} :
            /\ Commit(r)
            /\ ret' = [op |-> "sync_date_range",
                       args |-> <<league_abbr, start_date, end_date>>,
                       fetch |-> FetchFailed, exc |-> r.exc, value |-> r.value,
                       units |-> r.units]
            /\ runs' = runs + 1
            /\ UNCHANGED <<clientVars, celery>>

SyncDailyScheduleAct ==
    /\ runs < MaxRuns
    /\ \E today \in {0} :
      \E fetchOf \in [SetOf(DailyUnits(today)) -> JobFetches] :
        \E r \in {SyncDailySchedule(DB, today, fetchOf)} :
            /\ Commit(r)
            /\ ret' = [op |-> "sync_daily_schedule", args |-> <<today>>,
                       fetch |-> FetchFailed, exc |-> r.exc, value |-> r.value,
                       units |-> r.units]
            /\ runs' = runs + 1
            /\ UNCHANGED <<clientVars, celery>>

SyncAllLiveGamesAct ==
    /\ runs < MaxRuns
    /\ \E fetchOf \in [SetOf(LeagueAbbrs) -> JobFetches] :
        \E r \in {SyncAllLiveGames(DB, fetchOf)} :
            /\ Commit(r)
            /\ ret' = [op |-> "sync_all_live_games", args |-> <<>>,
                       fetch |-> FetchFailed, exc |-> r.exc, value |-> r.value,
                       units |-> r.units]
            /\ runs' = runs + 1
            /\ UNCHANGED <<clientVars, celery>>

\* the backfill job on "2024-01-15", "2024-01-16" and "2024-02-30"
SyncDateRangeTaskAct ==
    /\ runs < MaxRuns
    /\ \E league \in {"NFL"}, fetchOf \in [Days -> JobFetches] :
      \E start_date, end_date \in
            {<<"2", "0", "2", "4", "-", "0", "1", "-", "1", "5">>,
             <<"2", "0", "2", "4", "-", "0", "1", "-", "1", "6">>,
             <<"2", "0", "2", "4", "-", "0", "2", "-", "3", "0">>} :
        \E r \in {SyncDateRangeTask(DB, league, start_date, end_date, fetchOf)} :
            /\ Commit(r)
            /\ ret' = [op |-> "sync_date_range_task",
                       args |-> <<league, start_date, end_date>>,
                       fetch |-> FetchFailed, exc |-> r.exc, value |-> r.value,
                       units |-> r.units]
            /\ runs' = runs + 1
            /\ UNCHANGED <<clientVars, celery>>

NextUnits ==
    \/ SyncLeaguesAct
    \/ SyncLiveGamesAct
    \/ SyncDateRangeAct

SpecUnits == InitUnits /\ [][NextUnits]_vars

(***************************************************************************)
(* Specification SpecJobs: the Celery jobs that loop over units.           *)
(***************************************************************************)
NextJobs ==
    \/ SyncLeaguesAct
    \/ SyncDailyScheduleAct
    \/ SyncAllLiveGamesAct
    \/ SyncDateRangeTaskAct

SpecJobs == InitUnits /\ [][NextJobs]_vars

(***************************************************************************)
(* Specification SpecBeat: beat, the broker and a worker that executes     *)
(* sync_all_live_games on one store.  The clock is read every 5 s.  The    *)
(* worker's pool size is not set by the repository: it is 1 or 2.          *)
(***************************************************************************)
InitBeat ==
    /\ leagues \in InitUnitLeagues
    /\ teams = {}
    /\ games = <<>>
    /\ scores = {}
    /\ ret = NoCall
    /\ runs = 0
    /\ NoClient
    /\ celery \in {[NoCelery EXCEPT !.pool = n] : n \in {1, 2}}

\* beat sends the task when it is due
BeatAct ==
    /\ runs < MaxBeats
    /\ now = celery.due
    /\ celery' = [celery EXCEPT
                    !.due = @ + beat_schedule.schedule,
                    !.queue = Append(@, [sent |-> now, eta |-> now, retries |-> 0,
                                         expires |-> Some(now + beat_schedule.expires)])]
    /\ runs' = runs + 1
    /\ UNCHANGED <<storeVars, ret, clientVars>>

\* a free process of the pool receives the first message: an expired
\* message is discarded, any other starts executing
WorkerAct ==
    /\ celery.queue # <<>>
    /\ Cardinality(celery.active) < celery.pool
    /\ \E message \in {Head(celery.queue)} :
         /\ now >= message.eta
         /\ celery' = IF message.expires # None /\ now > message.expires[1]
                      THEN [celery EXCEPT !.queue = Tail(@)]
                      ELSE [celery EXCEPT
                               !.queue = Tail(@),
                               !.active = @ \cup {[sent |-> message.sent, started |-> now,
                                                   retries |-> message.retries]}]
    /\ UNCHANGED <<storeVars, ret, runs, clientVars>>

\* an execution of sync_all_live_games ends: the task body has run, and the
\* autoretry wrapper decides on what it raised
RunAct ==
    \E run \in celery.active, fetchOf \in [SetOf(LeagueAbbrs) -> JobFetches] :
        \E r \in {SyncAllLiveGames(DB, fetchOf)} :
            \E state \in {AutoRetry(beat_schedule.task, r.exc, run.retries)} :
                /\ Commit(r)
                /\ ret' = [op |-> beat_schedule.task, args |-> <<>>,
                           fetch |-> FetchFailed, exc |-> r.exc, value |-> r.value,
                           units |-> r.units]
                /\ celery' = [celery EXCEPT
                                !.active = @ \ {run},
                                !.state = state,
                                !.queue = IF state = "RETRY"
                                          THEN Append(@, [sent |-> run.sent,
                                                          eta |-> now + task_options[beat_schedule.task].countdown,
                                                          retries |-> run.retries + 1,
                                                          expires |-> None])
                                          ELSE @]
                /\ UNCHANGED <<runs, clientVars>>

\* 5 s pass: beat is never late, and no execution outlives its time limit
ClockAct ==
    /\ now < beat_schedule.schedule * MaxBeats
    /\ ~(runs < MaxBeats /\ now = celery.due)
    /\ \A run \in celery.active :
         now + 5 <= run.started + task_options[beat_schedule.task].time_limit
    /\ now' = now + 5
    /\ UNCHANGED <<storeVars, ret, runs, cache, io, upstream, celery>>

NextBeat ==
    \/ BeatAct
    \/ WorkerAct
    \/ RunAct
    \/ ClockAct

SpecBeat == InitBeat /\ [][NextBeat]_vars

(***************************************************************************)
(* Specification SpecRace: sync_all_live_games and sync_daily_schedule     *)
(* execute at the same time in a pool of two and each runs                 *)
(* sync_games('NFL', today) on the scoreboard it fetched.  A transaction   *)
(* reads what is committed; its writes are in the store when it commits at *)
(* the end of sync_games.  update_or_create is                             *)
(* select_for_update().get(external_id=...) followed by a save or a        *)
(* create; the row lock of the get is held until the commit.  The teams of *)
(* the game are in the store.  celery.active holds the executions, each    *)
(* with what it fetched and the row its get found (0: none).               *)
(***************************************************************************)
\* the game on the upstream scoreboard at time t: the home score grows
Snapshot(t) ==
    GameRecord(GameId, [Bodies.no_periods_key EXCEPT !.status = "live", !.home_score = t])

InitRace ==
    /\ leagues = [l \in SetOf(LeagueAbbrs) |-> LeaguesData[l]]
    /\ teams = {[league |-> "NFL", external_id |-> x.id, abbreviation |-> x.abbreviation] :
                   x \in {TeamKC, TeamBUF}}
    /\ games \in {<<>>,
                  <<GameRow("NFL", TeamKey([league |-> "NFL", abbreviation |-> TeamKC.abbreviation]),
                            TeamKey([league |-> "NFL", abbreviation |-> TeamBUF.abbreviation]),
                            Midnight(0), None, GameRecord(GameId, Bodies.no_periods_key))>>}
    /\ scores = {}
    /\ ret = NoCall
    /\ runs = 0
    /\ NoClient
    /\ celery = [NoCelery EXCEPT !.pool = 2]

\* a job starts and its sync_games fetches the scoreboard
RaceFetchAct ==
    /\ Cardinality(celery.active) < celery.pool
    /\ \E job \in {"sync_all_live_games", "sync_daily_schedule"} :
         /\ \A e \in celery.active : e.job # job
         /\ \A i \in DOMAIN ret.units : ret.units[i].unit # job
         /\ celery' = [celery EXCEPT !.active = @ \cup
                          {[job |-> job, pc |-> "get", fetched_at |-> now,
                            game_data |-> Snapshot(now), game |-> 0]}]
    /\ runs' = runs + 1
    /\ UNCHANGED <<storeVars, ret, clientVars>>

\* update_or_create looks the Game up among the committed rows; a row
\* that another transaction holds locked makes it wait.  Each job runs
\* once, so no more than one committed row is found.
RaceGetAct ==
    \E e \in celery.active :
        LET found == {i \in DOMAIN games : games[i].external_id = e.game_data.id}
        IN  /\ e.pc = "get"
            /\ Cardinality(found) <= 1
            /\ \A other \in celery.active \ {e} :
                 ~(other.pc = "save" /\ other.game \in found)
            /\ celery' = [celery EXCEPT !.active = (@ \ {e}) \cup
                             {[e EXCEPT !.pc = "save",
                                        !.game = IF found = {} THEN 0
                                                 ELSE CHOOSE i \in found : TRUE]}]
            /\ UNCHANGED <<storeVars, ret, runs, clientVars>>

\* the row is saved or created, and sync_games returns: the transaction
\* commits
RaceSaveAct ==
    \E e \in celery.active :
      \E home \in {GetOrCreateTeam(DB, "NFL", e.game_data.home_team)},
         away \in {GetOrCreateTeam(DB, "NFL", e.game_data.away_team)},
         scheduled_time \in {ParseScheduledTime(e.game_data)} :
        LET row == GameRow("NFL", home.team, away.team, Midnight(0),
                           scheduled_time.value, e.game_data)
            value == IF e.game = 0 THEN <<1, 0>> ELSE <<0, 1>>
        IN  /\ e.pc = "save"
            /\ home.exc = NoExc /\ away.exc = NoExc /\ scheduled_time.exc = NoExc
            /\ games' = IF e.game = 0 THEN Append(games, row)
                        ELSE [games EXCEPT ![e.game] = row]
            /\ celery' = [celery EXCEPT !.active = @ \ {e}]
            /\ ret' = [op |-> "sync_games", args |-> <<"NFL", None>>,
                       fetch |-> Fetched(<<e.game_data>>), exc |-> NoExc, value |-> value,
                       units |-> Append(ret.units,
                                        [unit |-> e.job, exc |-> NoExc, value |-> value,
                                         fetched_at |-> e.fetched_at])]
            /\ UNCHANGED <<leagues, teams, scores, runs, clientVars>>

\* time passes and the upstream scoreboard changes
RaceClockAct ==
    /\ now < MaxClock
    /\ now' = now + 1
    /\ UNCHANGED <<storeVars, ret, runs, cache, io, upstream, celery>>

NextRace ==
    \/ RaceFetchAct
    \/ RaceGetAct
    \/ RaceSaveAct
    \/ RaceClockAct

SpecRace == InitRace /\ [][NextRace]_vars

(***************************************************************************)
(* SyncService.sync_games on the real client: the scoreboard of            *)
(* league_abbr.lower() for the date, then the loop over its records.       *)
(***************************************************************************)
LeagueChars ==
    [NFL |-> <<"N", "F", "L">>, NBA |-> <<"N", "B", "A">>,
     MLB |-> <<"M", "L", "B">>, NHL |-> <<"N", "H", "L">>,
     NCAAF |-> <<"N", "C", "A", "A", "F">>, NCAAB |-> <<"N", "C", "A", "A", "B">>]

\* date.strftime("%Y%m%d"), day 0 being 2024-01-15
StrfTime(date) == ToString(20240115 + date)

SyncGamesWithClient(db, c, t, league_abbr, date, answers) ==
    IF ~LeagueExists(db, league_abbr)
    THEN [db |-> db, cache |-> c, exc |-> "DoesNotExist", value |-> <<0, 0>>, io |-> NoIO]
    ELSE LET AfterFetch(scoreboard_data) ==
                 IF scoreboard_data.exc # NoExc
                 THEN [db |-> db, cache |-> scoreboard_data.cache,
                       exc |-> scoreboard_data.exc, value |-> <<0, 0>>,
                       io |-> scoreboard_data.io]
                 ELSE LET AfterLoop(r) ==
                              [db |-> r.db, cache |-> scoreboard_data.cache, exc |-> r.exc,
                               value |-> r.value, io |-> scoreboard_data.io]
                      IN  Only({AfterLoop(x) : x \in
                                  {SyncGames(db, league_abbr, Some(date), Fetched(scoreboard_data.value))}})
         IN  Only({AfterFetch(x) : x \in
                     {GetScoreboard(c, t, Lower(LeagueChars[league_abbr]),
                                    Some(StrfTime(date)), 100, answers)}})

(***************************************************************************)
(* Inputs of the client: events, payloads and upstream behaviours.         *)
(***************************************************************************)
\* the events a scoreboard payload is made of: the game of the sample
\* payload, final and in progress, and events that lack a part
SampleEvents ==
    LET KickOff == [t |-> "str", iso |-> <<2024, 1, 15, 20, 0>>, tz |-> "Z"]
        BadDate == [t |-> "str", text |-> "invalid-date"]
        Competitor(homeAway, id, abbreviation, displayName, score) ==
            [homeAway |-> homeAway, id |-> id,
             team |-> [abbreviation |-> abbreviation, displayName |-> displayName],
             score |-> score]
        Home(score) == Competitor("home", "12", "KC", "Kansas City Chiefs", score)
        Away == Competitor("away", "2", "BUF", "Buffalo Bills", JStr(<<"2", "0">>))
        Both == <<Home(JStr(<<"2", "7">>)), Away>>
        Value(n) == [value |-> JInt(n)]
        Lines(home_linescores, away_linescores) ==
            <<IF home_linescores = PyNone THEN Home(JStr(<<"2", "7">>))
              ELSE DictSet(Home(JStr(<<"2", "7">>)), "linescores", home_linescores),
              DictSet(Away, "linescores", away_linescores)>>
        Competition(status_name, competitors, date) ==
            [status |-> [type |-> [name |-> status_name]],
             competitors |-> competitors, date |-> date]
        Event(id, date, competitions) ==
            [id |-> id, date |-> date, competitions |-> competitions]
        \* a baseball competition: a count, a runner on first, the pitcher,
        \* and the hits and errors of the home side
        AtBat(status_name) ==
            DictSet(Competition(status_name,
                                <<DictSet(Home(JStr(<<"2">>)), "statistics",
                                          <<[name |-> "hits", displayValue |-> "9"],
                                            [name |-> "errors", displayValue |-> "1"]>>),
                                  Away>>, KickOff),
                    "situation",
                    [balls |-> 2, strikes |-> 1, outs |-> 1, onFirst |-> TRUE,
                     pitcher |-> [athlete |-> [shortName |-> "G. Cole"],
                                  summary |-> "5.0 IP"]])
    IN  [final |-> Event("401547414", KickOff, <<Competition("STATUS_FINAL", Both, KickOff)>>),
         live |-> Event(GameId, KickOff, <<Competition("STATUS_IN_PROGRESS", Both, KickOff)>>),
         \* the malformed event of test_parse_scoreboard_malformed_event
         only_id |-> [id |-> "12345"],
         no_competition |-> Event("12346", KickOff, <<>>),
         no_home |-> Event("12347", KickOff, <<Competition("STATUS_FINAL", <<Away>>, KickOff)>>),
         bad_date |-> Event("12348", BadDate, <<Competition("STATUS_FINAL", Both, BadDate)>>),
         null_score |-> Event("12349", KickOff,
                              <<Competition("STATUS_FINAL", <<Home(JNull), Away>>, KickOff)>>),
         text_score |-> Event("12350", KickOff,
                              <<Competition("STATUS_FINAL",
                                            <<Home(JStr(<<"a", "b", "c">>)), Away>>, KickOff)>>),
         no_status |-> Event("12351", KickOff, <<[competitors |-> Both, date |-> KickOff]>>),
         \* line scores as in mock_scoreboard_response, then a shorter away
         \* list whose entry has no value, then no home list at all
         line_scores |-> Event("12352", KickOff,
                               <<Competition("STATUS_FINAL",
                                             Lines(<<Value(7), Value(10)>>,
                                                   <<Value(3), Value(7)>>), KickOff)>>),
         home_longer |-> Event("12353", KickOff,
                               <<Competition("STATUS_FINAL",
                                             Lines(<<Value(7), Value(10)>>, <<EmptyDict>>),
                                             KickOff)>>),
         away_longer |-> Event("12354", KickOff,
                               <<Competition("STATUS_FINAL",
                                             Lines(PyNone, <<Value(3), Value(7)>>),
                                             KickOff)>>),
         \* the at-bat sent with a game in progress and with a game that
         \* has not started
         at_bat |-> Event("12355", KickOff, <<AtBat("STATUS_IN_PROGRESS")>>),
         at_bat_scheduled |-> Event("12356", KickOff, <<AtBat("STATUS_SCHEDULED")>>)]

Events == {SampleEvents[k] : k \in DOMAIN SampleEvents}

Scoreboard(events) == [events |-> events]

\* upstream behaviours of the client specification
Payloads == {EmptyDict, Scoreboard(<<SampleEvents.live>>)}
Upstreams ==
    {<<Response(200, p)>> : p \in Payloads}
        \cup {<<Response(404, EmptyDict)>>, <<Response(503, EmptyDict)>>,
              <<TransportError, NotJson(200)>>}

\* upstream behaviours of the cache specification
CacheUpstreams ==
    {<<Response(200, p)>> : p \in {EmptyDict, Scoreboard(<<>>)}}
        \cup {<<NotJson(200)>>, <<TransportError, Response(200, Scoreboard(<<>>))>>}
        \cup {<<Response(429, EmptyDict)>>, <<Response(404, EmptyDict)>>}

\* upstream behaviours of the parse specification
ParseUpstreams == {<<Response(200, Scoreboard(b))>> : b \in SeqsUpTo(Events, MaxEvents)}

LeagueArgs ==
    {<<"N", "F", "L">>, <<"n", "f", "l">>, <<"N", "f", "l">>, <<"X", "F", "L">>, <<>>}

\* the instants at which the clock is read
Instants == {CACHE_DURATIONS.live, CACHE_DURATIONS.scheduled - 1, CACHE_DURATIONS.scheduled}

(***************************************************************************)
(* Specification SpecClient: the fetch methods of one client on the shared *)
(* cache, sync_games on that client, and an upstream that changes.         *)
(***************************************************************************)
NoStore ==
    /\ teams = {}
    /\ games = <<>>
    /\ scores = {}
    /\ ret = NoCall
    /\ runs = 0

InitClient ==
    /\ leagues = [l \in {"NFL"} |-> LeaguesData[l]]
    /\ NoStore
    /\ cache = EmptyDict
    /\ now = 0
    /\ io = NoIO
    /\ upstream \in Upstreams
    /\ celery = NoCelery

ClientCall(op, args, r) ==
    /\ cache' = r.cache
    /\ io' = r.io
    /\ ret' = [op |-> op, args |-> args, fetch |-> FetchFailed,
               exc |-> r.exc, value |-> r.value, units |-> <<>>]

GetScoreboardAct ==
    \E league \in LeagueArgs :
        \E r \in {GetScoreboard(cache, now, league, None, 100, upstream)} :
            /\ ClientCall("get_scoreboard", <<league, None, 100>>, r)
            /\ UNCHANGED <<celery, storeVars, runs, now, upstream>>

GetTeamsAct ==
    \E league \in LeagueArgs :
        \E r \in {GetTeams(cache, now, league, 100, upstream)} :
            /\ ClientCall("get_teams", <<league, 100>>, r)
            /\ UNCHANGED <<celery, storeVars, runs, now, upstream>>

GetTeamScheduleAct ==
    \E league \in LeagueArgs, season \in {Some(2024)} :
        \E r \in {GetTeamSchedule(cache, now, league, "12", season, upstream)} :
            /\ ClientCall("get_team_schedule", <<league, "12", season>>, r)
            /\ UNCHANGED <<celery, storeVars, runs, now, upstream>>

SyncGamesClientAct ==
    \E league_abbr \in SyncLeagueArgs :
        \E r \in {SyncGamesWithClient(DB, cache, now, league_abbr, 0, upstream)} :
            /\ Commit(r)
            /\ ClientCall("sync_games", <<league_abbr, 0>>, r)
            /\ UNCHANGED <<celery, runs, now, upstream>>

UpstreamAct ==
    /\ upstream' \in Upstreams \ {upstream}
    /\ UNCHANGED <<celery, storeVars, ret, runs, cache, now, io>>

NextClient ==
    \/ GetScoreboardAct
    \/ GetTeamsAct
    \/ GetTeamScheduleAct
    \/ SyncGamesClientAct
    \/ UpstreamAct

SpecClient == InitClient /\ [][NextClient]_vars

(***************************************************************************)
(* Specification SpecCache: _make_request calls on the shared cache while  *)
(* the clock advances.                                                     *)
(***************************************************************************)
InitCache ==
    /\ leagues = EmptyDict
    /\ NoStore
    /\ cache = EmptyDict
    /\ now = 0
    /\ io = NoIO
    /\ upstream \in CacheUpstreams
    /\ celery = NoCelery

MakeRequestAct ==
    \E endpoint \in {"football/nfl/scoreboard"}, use_cache \in BOOLEAN,
       cache_duration \in {None, Some(CACHE_DURATIONS.live)},
       params \in {EmptyDict, [key \in {"limit"} |-> "100"]} :
        \E r \in {MakeRequest(cache, now, endpoint, use_cache, cache_duration,
                              params, upstream)} :
            /\ ClientCall("_make_request",
                          <<endpoint, use_cache, cache_duration, params>>, r)
            /\ UNCHANGED <<celery, storeVars, runs, now, upstream>>

TickAct ==
    /\ \E t \in Instants : t > now /\ now' = t
    /\ UNCHANGED <<celery, storeVars, ret, runs, cache, io, upstream>>

CacheUpstreamAct ==
    /\ upstream' \in CacheUpstreams \ {upstream}
    /\ UNCHANGED <<celery, storeVars, ret, runs, cache, now, io>>

NextCache ==
    \/ MakeRequestAct
    \/ TickAct
    \/ CacheUpstreamAct

SpecCache == InitCache /\ [][NextCache]_vars

(***************************************************************************)
(* Specification SpecParse: the upstream serves one batch of events; the   *)
(* batch goes through get_scoreboard and through parse_scoreboard, and     *)
(* status strings through normalize_status.                                *)
(***************************************************************************)
InitParse ==
    /\ leagues = EmptyDict
    /\ NoStore
    /\ cache = EmptyDict
    /\ now = 0
    /\ io = NoIO
    /\ upstream \in ParseUpstreams
    /\ celery = NoCelery

ServedPayload == upstream[Len(upstream)].data

FetchScoreboardAct ==
    \E r \in {GetScoreboard(cache, now, LeagueChars.NFL, None, 100, upstream)} :
        /\ ClientCall("get_scoreboard", <<LeagueChars.NFL, None, 100>>, r)
        /\ UNCHANGED <<celery, storeVars, runs, now, upstream>>

ParseScoreboardAct ==
    \E r \in {ParseScoreboard(ServedPayload)} :
        /\ ret' = [op |-> "parse_scoreboard", args |-> <<ServedPayload>>, fetch |-> FetchFailed,
                   exc |-> r.exc, value |-> r.value, units |-> <<>>]
        /\ UNCHANGED <<celery, storeVars, runs, cache, now, io, upstream>>

NormalizeStatusAct ==
    \E espn_status \in DOMAIN STATUS_MAPPINGS
                          \cup {"STATUS_SUSPENDED", "STATUS_DELAYED", "final", ""} :
        /\ ret' = [op |-> "normalize_status", args |-> <<espn_status>>, fetch |-> FetchFailed,
                   exc |-> NoExc, value |-> NormalizeStatus(espn_status), units |-> <<>>]
        /\ UNCHANGED <<celery, storeVars, runs, cache, now, io, upstream>>

NextParse ==
    \/ FetchScoreboardAct
    \/ ParseScoreboardAct
    \/ NormalizeStatusAct

SpecParse == InitParse /\ [][NextParse]_vars

(***************************************************************************)
(* Properties.                                                             *)
(***************************************************************************)
RowsOf(gs, external_id) == {i \in DOMAIN gs : gs[i].external_id = external_id}

DistinctPeriods(game_data) ==
    \A i, j \in DOMAIN game_data.period_scores :
        game_data.period_scores[i].period = game_data.period_scores[j].period => i = j

\* this step is a sync_games call that was handed the one-record batch,
\* its scheduled_time a string or null, and was not cut short
SingleRecordSync ==
    /\ ret'.op = "sync_games"
    /\ ret'.exc # "TimeLimitExceeded"
    /\ ret'.fetch.ok
    /\ Len(ret'.fetch.data) = 1
    /\ ret'.fetch.data[1].scheduled_time.t # "int"

\* C1: in any store in which the league exists, sync_games of one
\* well-formed scoreboard record returns (1, 0) when no Game row has the
\* record's external_id and (0, 1) when one has, and afterwards exactly one
\* Game row has that external_id.
C1_UpsertIdempotent ==
    [][ (SingleRecordSync /\ LeagueExists(DB, ret'.args[1])
            /\ DistinctPeriods(ret'.fetch.data[1]))
        => LET id == ret'.fetch.data[1].id
           IN  /\ ret'.exc = NoExc
               /\ RowsOf(games, id) = {} => ret'.value = <<1, 0>>
               /\ RowsOf(games, id) # {} => ret'.value = <<0, 1>>
               /\ Cardinality(RowsOf(games', id)) = 1 ]_vars

\* index of the last record of the batch that carries this external_id
LastRecordOf(data, external_id) ==
    CHOOSE i \in DOMAIN data :
        /\ data[i].id = external_id
        /\ \A j \in DOMAIN data : data[j].id = external_id => j <= i

ScoreRowsOf(sc, game) == {s \in sc : s.game = game}

PayloadRows(game, period_scores) ==
    {[game |-> game,
      period |-> period_scores[i].period,
      home_score |-> period_scores[i].home_score,
      away_score |-> period_scores[i].away_score] : i \in DOMAIN period_scores}

\* C2: after a sync_games that upserted a game from a payload with a
\* non-empty period-score list, the Score rows of that game are exactly
\* the records of that payload; no row of an earlier sync is left.
C2_PeriodScoresReplaced ==
    [][ (ret'.op = "sync_games" /\ ret'.exc = NoExc)
        => \A i \in DOMAIN ret'.fetch.data :
             LET game_data == ret'.fetch.data[i]
             IN  (/\ i = LastRecordOf(ret'.fetch.data, game_data.id)
                  /\ game_data.has_period_scores
                  /\ Len(game_data.period_scores) > 0)
                 => \A g \in RowsOf(games', game_data.id) :
                      ScoreRowsOf(scores', g) = PayloadRows(g, game_data.period_scores) ]_vars

\* C2 witness: a game that had Score rows for periods 1 and 2 has been
\* re-synced from a payload with period 1 only
C2_Witness ==
    /\ ret.op = "sync_games" /\ ret.exc = NoExc
    /\ ret.value = <<0, 1>>
    /\ ret.fetch.data = <<GameRecord(GameId, Bodies.periods_1)>>
    /\ \E g \in RowsOf(games, GameId) : Cardinality(ScoreRowsOf(scores, g)) = 1

UnitsOf(r) == [i \in DOMAIN r.units |-> r.units[i].unit]
FailedUnits(r) == SelectSeq(r.units, LAMBDA u : u.exc # NoExc)

RECURSIVE SumSynced(_, _)
SumSynced(units, i) ==
    IF i > Len(units) THEN 0
    ELSE (IF units[i].exc = NoExc THEN Len(units[i].value) ELSE 0) + SumSynced(units, i + 1)

\* C3: sync_daily_schedule attempts every (league, date) unit of NFL, NBA,
\* MLB, NHL x today, tomorrow, never raises, keeps what the successful
\* units added to synced, and its errors list has exactly one entry per
\* failed unit, in order, naming that unit's league.
C3_DailyScheduleIsolation ==
    ret.op = "sync_daily_schedule"
    => /\ ret.exc = NoExc
       /\ UnitsOf(ret) = DailyUnits(ret.args[1])
       /\ SetOf(UnitsOf(ret)) = SetOf(LeagueAbbrs) \X {ret.args[1], ret.args[1] + 1}
       /\ ret.value.synced = SumSynced(ret.units, 1)
       /\ Len(ret.value.errors) = Len(FailedUnits(ret))
       /\ \A j \in DOMAIN ret.value.errors :
            /\ ret.value.errors[j].league = FailedUnits(ret)[j].unit[1]
            /\ ret.value.errors[j].date = FailedUnits(ret)[j].unit[2]

\* C3 witness: a unit failed on fetch, another on a missing league, and a
\* later unit succeeded
C3_Witness ==
    /\ ret.op = "sync_daily_schedule"
    /\ \E i, j, k \in DOMAIN ret.units :
         /\ i < k /\ j < k
         /\ ret.units[i].exc = "ESPNAPIError"
         /\ ret.units[j].exc = "DoesNotExist"
         /\ ret.units[k].exc = NoExc

\* C4: sync_live_games and sync_date_range attempt every unit of their
\* scope once, in order, return an entry for each unit and never raise,
\* whatever a unit's sync_games raised.
C4_MultiUnitCompletes ==
    /\ ret.op = "sync_live_games"
       => /\ ret.exc = NoExc
          /\ UnitsOf(ret) = LiveGamesScope(ret.args[1])
          /\ DOMAIN ret.value = SetOf(LiveGamesScope(ret.args[1]))
    /\ ret.op = "sync_date_range"
       => /\ ret.exc = NoExc
          /\ UnitsOf(ret) = [i \in 1..(IF ret.args[3] >= ret.args[2]
                                        THEN ret.args[3] - ret.args[2] + 1 ELSE 0)
                               |-> ret.args[2] + i - 1]
          /\ DOMAIN ret.value = {IsoFormat(d) : d \in ret.args[2]..ret.args[3]}

\* C4 witness: units of one call ended with a missing league and a failed
\* fetch, or with a failure in the store, and a later unit succeeded
C4_Witness ==
    \/ /\ ret.op = "sync_live_games"
       /\ \E i, j, k \in DOMAIN ret.units :
            /\ i < k /\ j < k
            /\ ret.units[i].exc = "DoesNotExist"
            /\ ret.units[j].exc = "ESPNAPIError"
            /\ ret.units[k].exc = NoExc
    \/ /\ ret.op = "sync_date_range"
       /\ \E i, k \in DOMAIN ret.units :
            /\ i < k
            /\ ret.units[i].exc = "IntegrityError"
            /\ ret.units[k].exc = NoExc

\* C5: every unit that fails inside sync_live_games, sync_date_range or
\* sync_all_live_games is recorded in the returned result as an error of
\* that unit, distinct from the entry of a unit that synced zero games; in
\* sync_all_live_games each failed league has exactly one errors entry.
C5_FailedUnitsReported ==
    /\ ret.op = "sync_live_games"
       => \A i \in DOMAIN ret.units :
            ret.units[i].exc # NoExc => ret.value[ret.units[i].unit] # <<0, 0>>
    /\ ret.op = "sync_date_range"
       => \A i \in DOMAIN ret.units :
            ret.units[i].exc # NoExc => ret.value[IsoFormat(ret.units[i].unit)] # <<0, 0>>
    /\ ret.op = "sync_all_live_games"
       => /\ Len(ret.value.errors) = Len(FailedUnits(ret))
          /\ \A j \in DOMAIN ret.value.errors :
               ret.value.errors[j].league = FailedUnits(ret)[j].unit

ClientFetchOps == {"get_scoreboard", "get_teams", "get_team_schedule"}

\* the string is one of the league codes of SPORT_MAPPINGS
SupportedCode(league) == Str(league) \in DOMAIN SPORT_MAPPINGS

SameLetter(a, b) ==
    \/ a = b
    \/ a \in DOMAIN UPPER /\ UPPER[a] = b
    \/ b \in DOMAIN UPPER /\ UPPER[b] = a

\* the string is a league code of SPORT_MAPPINGS up to the case of its letters
SupportedCodeAnyCase(league) ==
    \E code \in DOMAIN SPORT_MAPPINGS :
        /\ Len(league) = Len(LeagueChars[code])
        /\ \A i \in DOMAIN league : SameLetter(league[i], LeagueChars[code][i])

\* C6 as stated: get_scoreboard, get_teams and get_team_schedule never
\* raise the unsupported-league error for a league string that is a
\* supported league code, and raise it for every other string without a
\* network request or a cache access.
C6_ExactCodesOnly ==
    [][ ret'.op \in ClientFetchOps
        => LET league == ret'.args[1]
           IN  /\ SupportedCode(league) => ret'.exc # "ESPNAPIError: Unsupported league"
               /\ ~SupportedCode(league)
                  => /\ ret'.exc = "ESPNAPIError: Unsupported league"
                     /\ io' = NoIO
                     /\ cache' = cache ]_vars

\* C6 amended: get_teams and get_team_schedule accept exactly the league
\* codes and get_scoreboard accepts them in any letter case; an accepted
\* string never raises the unsupported-league error, every other string
\* raises it without a network request or a cache access.
C6_LeagueValidation ==
    [][ ret'.op \in ClientFetchOps
        => LET league == ret'.args[1]
               accepted == IF ret'.op = "get_scoreboard"
                           THEN SupportedCodeAnyCase(league)
                           ELSE SupportedCode(league)
           IN  /\ accepted => ret'.exc # "ESPNAPIError: Unsupported league"
               /\ ~accepted
                  => /\ ret'.exc = "ESPNAPIError: Unsupported league"
                     /\ io' = NoIO
                     /\ cache' = cache ]_vars

\* C6 witness: get_scoreboard('nfl') went to the network, and the cache
\* already held an entry when it did
C6_Witness ==
    /\ ret.op = "get_scoreboard"
    /\ ret.args[1] = <<"n", "f", "l">>
    /\ ret.exc = NoExc
    /\ io.requests = 1
    /\ Cardinality(DOMAIN cache) > 1

\* C7: a _make_request call that uses the cache and finds an entry for its
\* (endpoint, parameters) that has not expired issues no network request
\* and returns the payload of that entry, whatever payload was cached.
C7_CacheIdempotence ==
    [][ (/\ ret'.op = "_make_request"
         /\ now' = now
         /\ upstream' = upstream
         /\ ret'.args[2]
         /\ GetCacheKey(ret'.args[1], ret'.args[4]) \in DOMAIN cache
         /\ now < cache[GetCacheKey(ret'.args[1], ret'.args[4])].expires)
        => /\ io'.requests = 0
           /\ ret'.exc = NoExc
           /\ ret'.value = cache[GetCacheKey(ret'.args[1], ret'.args[4])].value ]_vars

CanonicalStatuses == {"scheduled", "live", "final", "postponed", "cancelled"}

\* C8: normalize_status never raises, returns one of scheduled, live,
\* final, postponed, cancelled for every status string, and returns
\* scheduled for every string outside the known vocabulary.
C8_StatusMappingTotal ==
    ret.op = "normalize_status"
    => /\ ret.exc = NoExc
       /\ ret.value \in CanonicalStatuses
       /\ ret.args[1] \notin DOMAIN STATUS_MAPPINGS => ret.value = "scheduled"

\* C8 witness: a status of the vocabulary that is not mapped by its name
C8_Witness ==
    /\ ret.op = "normalize_status"
    /\ ret.args[1] = "STATUS_IN_PROGRESS"
    /\ ret.value = "live"

\* C9: the status of every record get_scoreboard returns, and of every
\* Game row, is one of scheduled, live, final, postponed, cancelled.
C9_CanonicalStatusOnly ==
    /\ (ret.op = "get_scoreboard" /\ ret.exc = NoExc)
       => \A i \in DOMAIN ret.value : ret.value[i].status \in CanonicalStatuses
    /\ \A i \in DOMAIN games : games[i].status \in CanonicalStatuses

WellFormedCompetitor(c) ==
    /\ {"homeAway", "id", "team", "score"} \subseteq DOMAIN c
    /\ {"abbreviation", "displayName"} \subseteq DOMAIN c.team
    /\ c.score.t # "null"
    /\ PyInt(c.score).exc = NoExc

WellFormedEvent(e) ==
    /\ {"id", "date", "competitions"} \subseteq DOMAIN e
    /\ e.competitions # <<>>
    /\ {"status", "competitors"} \subseteq DOMAIN e.competitions[1]
    /\ \A side \in {"home", "away"} :
         \E i \in DOMAIN e.competitions[1].competitors :
            /\ WellFormedCompetitor(e.competitions[1].competitors[i])
            /\ e.competitions[1].competitors[i].homeAway = side
    /\ e.date.t = "str"
    /\ FromIsoFormat(ReplaceZ(e.date)).exc = NoExc

WellFormedIds(events) ==
    LET WellFormedAt(i) == WellFormedEvent(events[i])
        kept == SelectSeq([i \in DOMAIN events |-> i], WellFormedAt)
    IN  [k \in DOMAIN kept |-> events[kept[k]].id]

\* C10: parse_scoreboard and get_scoreboard never raise on a batch of
\* events, and return exactly the well-formed events of the batch, in
\* order: every malformed event is skipped.
C10_MalformedEventsSkipped ==
    /\ ret.op = "parse_scoreboard"
       => /\ ret.exc = NoExc
          /\ [i \in DOMAIN ret.value |-> ret.value[i].external_id]
                = WellFormedIds(ServedPayload.events)
    /\ ret.op = "get_scoreboard"
       => /\ ret.exc = NoExc
          /\ [i \in DOMAIN ret.value |-> ret.value[i].id]
                = WellFormedIds(ServedPayload.events)

\* the day number a sync_games call was asked for
RequestedDay(date) == IF date = None THEN 0 ELSE date[1]

\* C11: in every store, sync_games of a record whose scheduled_time string
\* cannot be parsed ends as sync_games of the same record with a valid
\* time does (same exception or same counts); when it does not raise, the
\* game's row has scheduled_time null and game_date the requested date at
\* midnight.
C11_UnparseableTimeTolerated ==
    \A league \in SyncLeagueArgs, date \in SyncDateArgs :
        LET bad == SyncGames(DB, league, date, Fetched(<<TimedRecord("invalid")>>))
            good == SyncGames(DB, league, date, Fetched(<<TimedRecord("kick_off")>>))
        IN  /\ bad.exc = good.exc
            /\ bad.value = good.value
            /\ bad.exc = NoExc
               => /\ RowsOf(bad.db.games, GameId) # {}
                  /\ \A i \in RowsOf(bad.db.games, GameId) :
                       /\ bad.db.games[i].scheduled_time = None
                       /\ bad.db.games[i].game_date = Midnight(RequestedDay(date))

\* C11 witness: sync_games for day 1 created the game from the record with
\* the unparseable time
C11_Witness ==
    /\ ret.op = "sync_games" /\ ret.exc = NoExc
    /\ ret.args[2] = Some(1)
    /\ ret.value = <<1, 0>>
    /\ ret.fetch.data = <<TimedRecord("invalid")>>
    /\ \E i \in RowsOf(games, GameId) :
         games[i].scheduled_time = None /\ games[i].game_date = Midnight(1)

\* C12 as stated: a Game row whose scheduled time was present and valid has
\* the calendar date of that time as its game_date.
C12_GameDateFromScheduledTime ==
    \A i \in DOMAIN games :
        games[i].scheduled_time # None
        => SubSeq(games[i].game_date, 1, 3) = SubSeq(games[i].scheduled_time[1][1], 1, 3)

\* C12 amended: after a sync_games that did not raise, the game_date of
\* every game of the batch is the requested date at midnight, whether the
\* record's scheduled time is valid, absent or unparseable.
C12_GameDateIsRequestedDate ==
    [][ (ret'.op = "sync_games" /\ ret'.exc = NoExc /\ ret'.fetch.ok)
        => \A k \in DOMAIN ret'.fetch.data :
             \A i \in RowsOf(games', ret'.fetch.data[k].id) :
                games'[i].game_date = Midnight(RequestedDay(ret'.args[2])) ]_vars

\* C12 witness: a game with a valid scheduled time on 2024-01-16 was synced
\* for 2024-01-15
C12_Witness ==
    /\ ret.op = "sync_games" /\ ret.exc = NoExc
    /\ ret.args[2] = None
    /\ ret.fetch.data = <<TimedRecord("next_day")>>
    /\ \E i \in RowsOf(games, GameId) :
         /\ games[i].scheduled_time # None
         /\ games[i].scheduled_time[1][1] = <<2024, 1, 16, 1, 0>>
         /\ games[i].game_date = Midnight(0)

\* C13: a _make_request that goes to the network and gets HTTP 429 on
\* every attempt raises ESPNRateLimitError; a call that fails in any other
\* way raises the generic ESPNAPIError.
C13_RateLimitDistinguished ==
    [][ (ret'.op = "_make_request" /\ upstream' = upstream /\ io'.requests = 1)
        => LET always429 == \A i \in DOMAIN upstream :
                                /\ ~upstream[i].transport_error
                                /\ upstream[i].status_code = 429
           IN  /\ always429 => ret'.exc = "ESPNRateLimitError: Rate limit exceeded"
               /\ (~always429 /\ ret'.exc # NoExc)
                  => ret'.exc \in {"ESPNAPIError: HTTP error",
                                   "ESPNAPIError: Request failed",
                                   "ESPNAPIError: Invalid JSON response"} ]_vars

\* C14: at no time are two executions of sync_all_live_games in progress.
C14_NoOverlappingRuns == Cardinality(celery.active) <= 1

\* C15: an execution of sync_all_live_games in which every unit failed is
\* retried while it has retries left, and no message is a retry beyond
\* max_retries.
C15_TotalFailureRetried ==
    /\ (/\ ret.op = beat_schedule.task
        /\ ret.units # <<>>
        /\ \A i \in DOMAIN ret.units : ret.units[i].exc # NoExc)
       => celery.state \in {"RETRY", "FAILURE"}
    /\ \A i \in DOMAIN celery.queue :
         celery.queue[i].retries <= task_options[beat_schedule.task].max_retries


\* the games the successful units of a run created or updated
RECURSIVE SumChanged(_, _)
SumChanged(units, i) ==
    IF i > Len(units) THEN 0
    ELSE (IF units[i].exc = NoExc THEN units[i].value[1] + units[i].value[2] ELSE 0)
         + SumChanged(units, i + 1)

\* C16: the synced count returned by sync_daily_schedule and by
\* sync_all_live_games equals the number of games the successful units of
\* the run created or updated, each unit's outcome being the
\* (created, updated) pair sync_games returned for it.
C16_SyncedCountsChanges ==
    ret.op \in {"sync_daily_schedule", "sync_all_live_games"}
    => ret.value.synced = SumChanged(ret.units, 1)


\* C17: sync_date_range_task on two valid YYYY-MM-DD dates runs one
\* sync_games unit for each date from start to end, in order, and returns
\* a result whose errors list is empty.
C17_DateRangeTaskRunsRange ==
    LET start == Strptime(ret.args[2])
        end == Strptime(ret.args[3])
    IN  ret.op = "sync_date_range_task" /\ start.exc = NoExc /\ end.exc = NoExc
        => /\ ret.value.errors = <<>>
           /\ UnitsOf(ret) = [i \in 1..(IF end.value.day >= start.value.day
                                         THEN end.value.day - start.value.day + 1 ELSE 0)
                                |-> start.value.day + i - 1]


\* C18: sync_date_range on datetimes start and end runs sync_games once
\* for each date from start to end inclusive, in ascending order, and
\* returns a map with exactly one entry per date of the range, keyed by
\* the date's ISO form; when start is after end no sync_games runs and the
\* map is empty.
C18_DateRangeCoversEachDate ==
    ret.op = "sync_date_range"
    => LET start == ret.args[2]
           end == ret.args[3]
           n == IF end >= start THEN end - start + 1 ELSE 0
       IN  /\ UnitsOf(ret) = [i \in 1..n |-> start + i - 1]
           /\ DOMAIN ret.value = {IsoFormat(d) : d \in start..end}
           /\ Cardinality(DOMAIN ret.value) = n
           /\ start > end => ret.units = <<>> /\ ret.value = EmptyDict

\* C18 witness: a range of two dates was synced, the later date last
C18_Witness ==
    /\ ret.op = "sync_date_range"
    /\ ret.args[2] < ret.args[3]
    /\ UnitsOf(ret) = <<ret.args[2], ret.args[3]>>
    /\ DOMAIN ret.value = {"2024-01-15", "2024-01-16"}


\* C19: a run of sync_leagues leaves each of NFL, NBA, MLB, NHL in the
\* League table with its canonical name and sport type, returns created =
\* the number of them that were absent and updated = the number that were
\* there with another name or sport type, and leaves every other league
\* as it was; a run that follows a run returns (0, 0) and changes no row.
C19_SyncLeaguesIdempotent ==
    [][ret'.op = "sync_leagues"
       => /\ DOMAIN leagues' = DOMAIN leagues \cup SetOf(LeagueAbbrs)
          /\ \A l \in SetOf(LeagueAbbrs) : leagues'[l] = LeaguesData[l]
          /\ \A l \in DOMAIN leagues \ SetOf(LeagueAbbrs) : leagues'[l] = leagues[l]
          /\ ret'.value =
               <<Cardinality(SetOf(LeagueAbbrs) \ DOMAIN leagues),
                 Cardinality({l \in SetOf(LeagueAbbrs) \cap DOMAIN leagues :
                                leagues[l] # LeaguesData[l]})>>
          /\ ret.op = "sync_leagues" => ret'.value = <<0, 0>> /\ leagues' = leagues]_vars

\* C19 witness: a run created three leagues and updated the NFL row next
\* to a league outside the list, and the run after it returned (0, 0)
C19_Witness ==
    /\ ret.op = "sync_leagues"
    /\ ret.value = <<0, 0>>
    /\ "NCAAF" \in DOMAIN leagues
    /\ leagues["NFL"] = LeaguesData["NFL"]


\* the line scores of one side of the event with that id in the served
\* payload
LineScoresOf(id, side) ==
    LET e == CHOOSE x \in SetOf(ServedPayload.events) : "id" \in DOMAIN x /\ x.id = id
        c == CHOOSE x \in SetOf(e.competitions[1].competitors) : x.homeAway = side
    IN  IF "linescores" \in DOMAIN c THEN c.linescores ELSE <<>>

\* C20: every game parse_scoreboard returns has one period-score record
\* per position that both line-score arrays of its event have: min(H, A)
\* records, record i with period i, the i-th home value and the i-th away
\* value (0 for an entry without a value).
C20_PeriodScoresZipShortest ==
    ret.op = "parse_scoreboard" /\ ret.exc = NoExc
    => \A k \in DOMAIN ret.value :
         LET home == LineScoresOf(ret.value[k].external_id, "home")
             away == LineScoresOf(ret.value[k].external_id, "away")
             n == IF Len(home) <= Len(away) THEN Len(home) ELSE Len(away)
             ValueOf(ls) == IF "value" \in DOMAIN ls THEN ls.value.n ELSE 0
         IN  ret.value[k].period_scores =
               [i \in 1..n |-> [period |-> i,
                                home_score |-> ValueOf(home[i]),
                                away_score |-> ValueOf(away[i])]]

\* C20 witness: a game parsed from two home line scores and one away line
\* score has one period-score record, and a game parsed from two and two
\* has two
C20_Witness ==
    /\ ret.op = "parse_scoreboard"
    /\ ret.exc = NoExc
    /\ \E j, k \in DOMAIN ret.value :
         /\ Len(LineScoresOf(ret.value[j].external_id, "home")) = 2
         /\ Len(LineScoresOf(ret.value[j].external_id, "away")) = 1
         /\ Len(ret.value[j].period_scores) = 1
         /\ Len(LineScoresOf(ret.value[k].external_id, "away")) = 2
         /\ Len(ret.value[k].period_scores) = 2


\* an event that has every part the parsers read, whatever its scores are
WellFormedButScores(e) ==
    /\ {"id", "date", "competitions"} \subseteq DOMAIN e
    /\ e.competitions # <<>>
    /\ {"status", "competitors"} \subseteq DOMAIN e.competitions[1]
    /\ \A side \in {"home", "away"} :
         \E i \in DOMAIN e.competitions[1].competitors :
            /\ {"homeAway", "id", "team"} \subseteq DOMAIN e.competitions[1].competitors[i]
            /\ {"abbreviation", "displayName"}
                  \subseteq DOMAIN e.competitions[1].competitors[i].team
            /\ e.competitions[1].competitors[i].homeAway = side
    /\ e.date.t = "str"
    /\ FromIsoFormat(ReplaceZ(e.date)).exc = NoExc

\* the integer a score field stands for: the number, the number a numeric
\* string spells, and 0 for a missing, null or non-numeric value
ScoreOrZero(e, side) ==
    LET c == CHOOSE x \in SetOf(e.competitions[1].competitors) : x.homeAway = side
    IN  IF "score" \notin DOMAIN c THEN 0
        ELSE IF c.score.t = "int" THEN c.score.n
        ELSE IF c.score.t = "str" /\ c.score.s # <<>>
                /\ \A i \in DOMAIN c.score.s : c.score.s[i] \in SetOf(Digits)
        THEN DigitsValue(c.score.s, 0)
        ELSE 0

\* C21: on a batch of events that are well formed but for their scores,
\* parse_scoreboard and get_scoreboard do not raise and return one game per
\* event whose home and away score is the integer of the upstream value, 0
\* when that value is missing, null or not numeric.
C21_ScoresAlwaysIntegers ==
    /\ ret.op \in {"parse_scoreboard", "get_scoreboard"}
    /\ \A i \in DOMAIN ServedPayload.events : WellFormedButScores(ServedPayload.events[i])
    => /\ ret.exc = NoExc
       /\ DOMAIN ret.value = DOMAIN ServedPayload.events
       /\ \A i \in DOMAIN ret.value :
            /\ ret.value[i].home_score = ScoreOrZero(ServedPayload.events[i], "home")
            /\ ret.value[i].away_score = ScoreOrZero(ServedPayload.events[i], "away")


\* C22: after a sync_games that upserted a game, every Score row of that
\* game is a record of the payload the game was last synced from; when that
\* payload has no period_scores key or an empty list, the game has no Score
\* row.
C22_NoStalePeriodSurvives ==
    [][ (ret'.op = "sync_games" /\ ret'.exc = NoExc)
        => \A i \in DOMAIN ret'.fetch.data :
             LET game_data == ret'.fetch.data[i]
                 period_scores == IF game_data.has_period_scores
                                  THEN game_data.period_scores ELSE <<>>
             IN  i = LastRecordOf(ret'.fetch.data, game_data.id)
                 => \A g \in RowsOf(games', game_data.id) :
                      ScoreRowsOf(scores', g) \subseteq PayloadRows(g, period_scores) ]_vars


C24_OneGamePerExternalId ==
    \A i, j \in DOMAIN games : games[i].external_id = games[j].external_id => i = j

\* C25: once both jobs have synced the game, each from the snapshot it
\* fetched, the one stored Game row has the score of the snapshot that was
\* fetched later.
C25_LatestSnapshotWins ==
    /\ celery.active = {}
    /\ Len(ret.units) = 2
    /\ ret.units[1].fetched_at # ret.units[2].fetched_at
    /\ Cardinality(RowsOf(games, GameId)) = 1
    => LET latest == IF ret.units[1].fetched_at > ret.units[2].fetched_at
                     THEN ret.units[1].fetched_at ELSE ret.units[2].fetched_at
       IN  \A g \in RowsOf(games, GameId) : games[g].home_score = Snapshot(latest).home_score


\* C26: whatever Team rows sync_teams and sync_games have stored, a
\* sync_games of one well-formed record that names a team without a row
\* under (league, external_id) does not raise, and afterwards that team has
\* a row under (league, external_id).
C26_TeamResolutionNeverFails ==
    [][ LET game_data == ret'.fetch.data[1]
            league == ret'.args[1]
            Missing(team_data) == ~TeamExternalIdTaken(DB, league, team_data.id)
        IN  (/\ SingleRecordSync
             /\ LeagueExists(DB, league)
             /\ DistinctPeriods(game_data)
             /\ Missing(game_data.home_team) \/ Missing(game_data.away_team))
            => /\ ret'.exc = NoExc
               /\ \A team_data \in {game_data.home_team, game_data.away_team} :
                    \E row \in teams' : row.league = league /\ row.external_id = team_data.id
      ]_vars


\* C27: a sync_games call leaves every Team row that existed before it as
\* it was, and a Team row it adds has the id and abbreviation of a team
\* block of the scoreboard it was handed.
C27_GameSyncKeepsTeams ==
    [][ ret'.op = "sync_games"
        => /\ teams \subseteq teams'
           /\ \A row \in teams' \ teams :
                \E i \in DOMAIN ret'.fetch.data :
                  \E team_data \in {ret'.fetch.data[i].home_team, ret'.fetch.data[i].away_team} :
                     /\ row.league = ret'.args[1]
                     /\ row.external_id = team_data.id
                     /\ row.abbreviation = team_data.abbreviation ]_vars

\* C27 witness: a game was synced from a team block that names team 12
\* "KAN", and the Team row of team 12 still has the abbreviation "KC"
C27_Witness ==
    /\ ret.op = "sync_games"
    /\ ret.exc = NoExc
    /\ ret.fetch.data = <<GameRecord(GameId, Bodies.renamed_kc)>>
    /\ [league |-> "NFL", external_id |-> TeamKC.id, abbreviation |-> TeamKC.abbreviation]
          \in teams


\* C28: a scoreboard of live games is cached for 60 s: when get_scoreboard,
\* called directly or by sync_games, is answered from the cache with the
\* live scoreboard, the entry it was answered from expires no later than
\* 60 s from now.
C28_LiveScoreboardCachedOneMinute ==
    LET limit_only == [key \in {"limit"} |-> "100"]
        scoreboard_keys ==
            {GetCacheKey("football/nfl/scoreboard", params) :
                params \in {limit_only, DictSet(limit_only, "dates", StrfTime(0))}}
    IN  \A key \in scoreboard_keys \cap DOMAIN cache :
           ( /\ ret.op \in {"get_scoreboard", "sync_games"}
             /\ io.cache_gets = 1
             /\ io.requests = 0
             /\ now < cache[key].expires
             /\ cache[key].value = Scoreboard(<<SampleEvents.live>>) )
           => cache[key].expires <= now + CACHE_DURATIONS.live


\* C29: a fetch of the client makes at most 1 + max_retries attempts on
\* the network; each attempt after the first follows an answer that was a
\* transport failure or a status of 429, 500, 502, 503, 504; an
\* unsupported league makes no attempt; and a fetch that raises a client
\* error leaves the cache as it was.
C29_BoundedRetriesOnTransientOnly ==
    [][ LET Answer(i) == upstream[IF i <= Len(upstream) THEN i ELSE Len(upstream)]
            Transient(a) == a.transport_error \/ a.status_code \in {429, 500, 502, 503, 504}
            client_errors == {"ESPNAPIError: Unsupported league",
                              "ESPNAPIError: Request failed",
                              "ESPNAPIError: HTTP error",
                              "ESPNRateLimitError: Rate limit exceeded",
                              "ESPNAPIError: Invalid JSON response"}
        IN  ( /\ upstream' = upstream
              /\ ret'.op \in {"get_scoreboard", "get_teams", "get_team_schedule"} )
            => /\ io'.attempts <= 1 + max_retries
               /\ \A i \in 1..(io'.attempts - 1) : Transient(Answer(i))
               /\ ret'.exc = "ESPNAPIError: Unsupported league"
                     => io'.requests = 0 /\ io'.attempts = 0
               /\ ret'.exc \in client_errors
                     => io'.cache_sets = 0 /\ cache' = cache ]_vars

\* C29 witnesses: a fetch gave up after 1 + max_retries attempts on a
\* status 503, having written nothing to the cache
C29_Witness ==
    /\ ret.op = "get_scoreboard"
    /\ ret.exc = "ESPNAPIError: Request failed"
    /\ upstream = <<Response(503, EmptyDict)>>
    /\ io.attempts = 1 + max_retries
    /\ io.cache_sets = 0


\* C30: in every game get_scoreboard returns with the status scheduled,
\* postponed or cancelled, the situation is absent and the hits and errors
\* of both sides are '0'.
C30_SituationOnlyWhenPlayed ==
    ( ret.op = "get_scoreboard" /\ ret.exc = NoExc )
    => \A i \in DOMAIN ret.value :
          ret.value[i].status \in {"scheduled", "postponed", "cancelled"}
          => /\ ret.value[i].situation = None
             /\ ret.value[i].box_score.home_stats = [hits |-> "0", errors |-> "0"]
             /\ ret.value[i].box_score.away_stats = [hits |-> "0", errors |-> "0"]

=============================================================================
